---------------------------- MODULE Spec2Model ----------------------------
(***************************************************************************)
(* Calendar sync server: the polling scheduler (performSync), the shared   *)
(* sliding-window RateLimiter and the three-phase reconciliation engine    *)
(* of GoogleCalendarSyncService over the local appointment store and the   *)
(* remote calendar.                                                        *)
(*                                                                         *)
(* The specifications of this module:                                      *)
(*   SpecSched  the cron / initial-sync triggers around performSync        *)
(*   SpecRate   callers of RateLimiter.makeRequest on a discrete clock     *)
(*   Spec       batch cycles of the engine (phases A, B, C per integration)*)
(*   SpecFair   Spec, with its steps weakly fair                           *)
(* Each leaves the variables of the other parts at their initial values.   *)
(***************************************************************************)
EXTENDS Integers, Sequences, FiniteSets, TLC

VARIABLES
    \* ---- scheduler (server entry point) ----
    isRunning,      \* let isRunning
    lastSyncTime,   \* let lastSyncTime (0 = null)
    syncStats,      \* let syncStats {totalRuns, successfulRuns, failedRuns, lastError}
    inflight,       \* invocations of performSync awaiting syncAllIntegrations()
    calls,          \* number of performSync invocations made so far
    initialTimer,   \* setTimeout(performSync, 5000): "none" | "armed" | "fired"
    skipped,        \* number of "Sync already running, skipping" returns
    lastCall,       \* what the latest performSync invocation did: "none" | "started" | "skipped"
    \* ---- RateLimiter (singleton) and its callers ----
    now,            \* Date.now(), in clock ticks
    requests,       \* this.requests: the recorded call timestamps, in push order
    rpc,            \* per caller of makeRequest: "idle" | "sleeping" | "granted" | "calling"
    wakeAt,         \* per caller: when its setTimeout(resolve, timeToWait) is due
    rhist,          \* per caller: what its current makeRequest saw and did (history)
    \* ---- withRetry and ensureValidToken: one call of each ----
    sent,           \* per caller's requestFn: when each HTTP request went out
    tries,          \* per caller: attempts withRetry has made in the current call
    retry,          \* one call of withRetry(fn, maxRetries)
    tok,            \* one call of syncSingleIntegration up to ensureValidToken's end
    \* ---- the server process and its configuration ----
    proc,           \* the process: started or exited, cron task, shutdown timers
    maxBatch,       \* this.maxCompaniesPerBatch, as read by the constructor
    \* ---- local store (Supabase) and remote calendar ----
    appts,          \* table appointments: row id = index
    events,         \* remote calendar events: event id = index
    rseq,           \* the remote API's change counter, the source of sync tokens
    integ,          \* table google_calendar_integrations: one row per integration
    \* ---- GoogleCalendarSyncService: position in the batch cycle ----
    epc,            \* "idle" | "token" | "A_list" | "A_items" | "B_fetch" | "B_items"
                    \*   | "B_cursor" | "C_start" | "C_items"
    cycle,          \* batch cycles started so far, counted up to MaxCycles
    batch,          \* integrations of this cycle still to be processed
    cur,            \* the integration being processed (0 = none)
    items,          \* what is left of the current phase's loop
    resp,           \* Phase B: the list response's nextSyncToken (0 = none)
    faultsLeft,     \* faults (remote errors, store errors) the run may still inject
    envLeft,        \* user actions (local or remote) the run may still make
    \* ---- history, read only by the properties ----
    lastPush,       \* the latest createGoogleEvent call of Phase A
    bpass,          \* the current or latest Phase B pass
    lastItem,       \* the latest processGoogleEvent call
    lastProbe,      \* the latest item of Phase C's loop
    sweeps,         \* Phase C executions, and the rows they cancelled
    round,          \* the current or latest cycle: its batch, who was entered, who failed
    unapplied       \* events whose latest delivered state could not be applied locally

schedVars == <<isRunning, lastSyncTime, syncStats, inflight, calls, initialTimer,
               skipped, lastCall>>

rateVars == <<now, requests, rpc, wakeAt, rhist>>

storeVars == <<appts, events, rseq, integ>>

engVars == <<epc, cycle, batch, cur, items, resp, faultsLeft, envLeft>>

histVars == <<lastPush, bpass, lastItem, lastProbe, sweeps, round, unapplied>>

callVars == <<sent, tries, retry, tok>>

srvVars == <<proc, maxBatch>>

vars == <<schedVars, rateVars, storeVars, engVars, histVars, callVars, srvVars>>

\* ------------------------------------------------------------------------
\* Bounds
\* ------------------------------------------------------------------------
\* performSync invocations (cron ticks plus the initial-sync timer) per run
MaxTriggers == 5

\* concurrent callers of rateLimiter.makeRequest
NumCallers == 2
\* the last clock tick of a run
MaxTime == 6
\* makeRequest calls per run, all callers together
MaxRequests == 3
\* this.windowSizeMs (60 * 1000 ms) in clock ticks
WindowTicks == 3
\* the 1000 ms floor of waitForAvailability's sleep, in clock ticks
FloorTicks == 2
\* this.maxRequestsPerMinute (GOOGLE_API_RATE_LIMIT_PER_MINUTE, default 300)
Capacity == 2

\* this.maxCompaniesPerBatch (MAX_COMPANIES_PER_BATCH, default 50)
maxCompaniesPerBatch == 50
\* .limit(100) of getSyncedAppointments
SyncedLimit == 100

\* appointments the application's users book
MaxAppts == 2
\* events the calendars' owners add
MaxEvents == 2
\* the cycle counter, and the count of sweeps, stop counting here; cycles
\* themselves go on for ever
MaxCycles == 2
\* injected faults per run
MaxFaults == 1
\* user actions per run
MaxEnv == 2
\* the largest maxRetries withRetry is called with
MaxAttempts == 3
\* sent requests remembered within one window
MaxSent == 3
\* the largest configured batch cap
MaxBatch == 2
\* firings of the shutdown poll before the forced exit is due
ForceTicks == 2

\* ------------------------------------------------------------------------
\* The server process
\* ------------------------------------------------------------------------
\* the integration the shutdown signal found in process (-1 = no signal yet,
\* 0 = signal with no integration in process)
NoSignal == -1

\* the process once startServer has run: cron task started, no signal
\* received.  left counts the ticks to the forced exit, hung says that an
\* awaited call of the cycle never settles, beat is the parity of the cron
\* firings that found a cycle in flight.
ProcRunning ==
    [state |-> "running", exitCode |-> -1, cron |-> "on", signalled |-> FALSE,
     waiting |-> FALSE, left |-> 0, hung |-> FALSE, beat |-> 0, at |-> NoSignal]

\* the process before startServer has tested the connection
ProcStarting == [ProcRunning EXCEPT !.state = "starting", !.cron = "off"]

ServerUp ==
    /\ proc = ProcRunning
    /\ maxBatch = maxCompaniesPerBatch

\* process.exit(code)
Exited(p, code) ==
    [p EXCEPT !.state = "exited", !.exitCode = code, !.waiting = FALSE]

\* shutdown(signal): the cron task is stopped; with a cycle in flight the
\* poll (setInterval, 1 s) and the forced exit (setTimeout, 30 s) are armed,
\* else the process exits at once
ShutdownWhile(inFlight) ==
    /\ proc.state = "running"
    /\ ~proc.signalled
    /\ LET p == [proc EXCEPT !.signalled = TRUE, !.cron = "stopped",
                             !.at = cur.id]
       IN proc' = IF inFlight
                  THEN [p EXCEPT !.waiting = TRUE, !.left = ForceTicks]
                  ELSE Exited(p, 0)
    /\ UNCHANGED <<schedVars, rateVars, storeVars, engVars, histVars, callVars,
                   maxBatch>>

\* the callback of the poll:  if (!isRunning) { ...; process.exit(0) }
PollExitsAlways(inFlight) == TRUE
PollExits(inFlight) == ~inFlight

\* one firing of the poll: a second of the wait has passed
ShutdownPollWhile(inFlight) ==
    /\ proc.state = "running"
    /\ proc.waiting
    /\ proc.left > 0 \/ PollExits(inFlight)
    /\ proc' = IF PollExits(inFlight) THEN Exited(proc, 0)
               ELSE [proc EXCEPT !.left = @ - 1]
    /\ UNCHANGED <<schedVars, rateVars, storeVars, engVars, histVars, callVars,
                   maxBatch>>

\* the forced exit is due when the 30 s are over
ForceNever(left) == FALSE
ForceDue(left) == left = 0

\* setTimeout(() => process.exit(1), 30000)
ForceExit ==
    /\ proc.state = "running"
    /\ proc.waiting
    /\ ForceDue(proc.left)
    /\ proc' = Exited(proc, 1)
    /\ UNCHANGED <<schedVars, rateVars, storeVars, engVars, histVars, callVars,
                   maxBatch>>

\* ------------------------------------------------------------------------
\* Scheduler: performSync, startServer
\* ------------------------------------------------------------------------
SchedInit ==
    /\ isRunning = FALSE
    /\ lastSyncTime = 0
    /\ syncStats = [totalRuns |-> 0, successfulRuns |-> 0, failedRuns |-> 0,
                    lastError |-> FALSE]
    /\ inflight = {}
    /\ calls = 0
    /\ skipped = 0
    /\ lastCall = "none"

\* The in-flight guard at the top of performSync:  if (isRunning) return;
PerformSyncUnguarded == FALSE
PerformSyncGuard == isRunning

\* performSync up to its first await: the guard, isRunning = true, and the
\* call of syncService.syncAllIntegrations(), which then runs asynchronously.
PerformSyncEnter ==
    /\ calls < MaxTriggers
    /\ calls' = calls + 1
    /\ IF PerformSyncGuard
       THEN /\ skipped' = skipped + 1
            /\ lastCall' = "skipped"
            /\ UNCHANGED <<isRunning, lastSyncTime, syncStats, inflight>>
       ELSE /\ isRunning' = TRUE
            /\ inflight' = inflight \cup {calls + 1}
            /\ lastCall' = "started"
            /\ UNCHANGED <<lastSyncTime, syncStats, skipped>>

\* cron.schedule(cronExpression, performSync), started by cronTask.start()
CronTick ==
    /\ PerformSyncEnter
    /\ UNCHANGED <<initialTimer, rateVars, storeVars, engVars, histVars, callVars, srvVars>>

\* setTimeout(performSync, 5000), armed unless RUN_INITIAL_SYNC === 'false'
InitialSyncTimer ==
    /\ initialTimer = "armed"
    /\ initialTimer' = "fired"
    /\ PerformSyncEnter
    /\ UNCHANGED <<rateVars, storeVars, engVars, histVars, callVars, srvVars>>

\* await syncAllIntegrations() resolves: the rest of the try block, then finally
SyncResolves(k) ==
    /\ k \in inflight
    /\ inflight' = inflight \ {k}
    /\ syncStats' = [syncStats EXCEPT !.successfulRuns = @ + 1,
                                      !.lastError = FALSE,
                                      !.totalRuns = @ + 1]
    /\ lastSyncTime' = calls
    /\ isRunning' = FALSE
    /\ UNCHANGED <<calls, initialTimer, skipped, lastCall, rateVars, storeVars,
                   engVars, histVars, callVars, srvVars>>

\* await syncAllIntegrations() rejects: the catch block, then finally
SyncRejectsFatal(k) ==
    /\ k \in inflight
    /\ proc' = Exited(proc, 1)
    /\ UNCHANGED <<schedVars, rateVars, storeVars, engVars, histVars, callVars,
                   maxBatch>>
SyncRejects(k) ==
    /\ k \in inflight
    /\ inflight' = inflight \ {k}
    /\ syncStats' = [syncStats EXCEPT !.failedRuns = @ + 1,
                                      !.lastError = TRUE,
                                      !.totalRuns = @ + 1]
    /\ isRunning' = FALSE
    /\ UNCHANGED <<lastSyncTime, calls, initialTimer, skipped, lastCall, rateVars, storeVars,
                   engVars, histVars, callVars, srvVars>>

\* startServer: testConnection decides whether the process goes on; then the
\* cron task is set up and started, the signal handlers are installed and,
\* unless RUN_INITIAL_SYNC is 'false', the initial sync is armed
StartServer ==
    /\ proc.state = "starting"
    /\ \E connectionOk \in BOOLEAN, runInitialSync \in BOOLEAN :
          IF connectionOk
          THEN /\ proc' = ProcRunning
               /\ initialTimer' = IF runInitialSync THEN "armed" ELSE "none"
          ELSE /\ proc' = Exited(proc, 1)
               /\ initialTimer' = initialTimer
    /\ UNCHANGED <<isRunning, lastSyncTime, syncStats, inflight, calls, skipped,
                   lastCall, rateVars, storeVars, engVars, histVars, callVars,
                   maxBatch>>

\* the triggers and the ends of a cycle, in a process that is up
ServerCron ==
    /\ proc.state = "running"
    /\ proc.cron = "on"
    /\ CronTick

ServerInitialSync ==
    /\ proc.state = "running"
    /\ InitialSyncTimer

ServerSyncResolves(k) ==
    /\ proc.state = "running"
    /\ SyncResolves(k)

ServerSyncRejects(k) ==
    /\ proc.state = "running"
    /\ SyncRejects(k)

\* the signal handlers and the shutdown timers, reading isRunning
ServerShutdown == ShutdownWhile(isRunning)
ServerPoll == ShutdownPollWhile(isRunning)

\* ------------------------------------------------------------------------
\* RateLimiter
\* ------------------------------------------------------------------------
Callers == 1..NumCallers

Max2(a, b) == IF a >= b THEN a ELSE b

RECURSIVE SeqMin(_)
\* Math.min(...array) of a non-empty array
SeqMin(s) ==
    IF Len(s) = 1 THEN s[1]
    ELSE LET m == SeqMin(Tail(s)) IN IF s[1] <= m THEN s[1] ELSE m

\* this.requests.filter(requestTime => requestTime > windowStart)
InWindow(reqs, t) ==
    LET windowStart == t - WindowTicks
        Keep(r) == r > windowStart
    IN SelectSeq(reqs, Keep)

\* the test of canMakeRequest on the pruned window:
\*   if (this.requests.length >= this.maxRequestsPerMinute) return false
HasCapacityOffByOne(reqs, t) == Len(InWindow(reqs, t)) <= Capacity
HasCapacity(reqs, t) == Len(InWindow(reqs, t)) < Capacity

\* waitForAvailability's sleep: Math.max(1000, oldestRequest + windowSizeMs - now)
TimeToWait(reqs, t) ==
    Max2(FloorTicks, SeqMin(InWindow(reqs, t)) + WindowTicks - t)

NoHist == [blocked |-> FALSE, deadline |-> 0, sleptAt |-> 0, sleepNeed |-> 0,
           recordedAt |-> 0]

RateIdle ==
    /\ now = 0
    /\ requests = <<>>
    /\ rpc = [c \in Callers |-> "idle"]
    /\ wakeAt = [c \in Callers |-> 0]
    /\ rhist = [c \in Callers |-> NoHist]

\* One turn of waitForAvailability's loop: canMakeRequest() prunes the window
\* and either lets the caller through or puts it to sleep.
Attempt(c, h) ==
    /\ requests' = InWindow(requests, now)
    /\ IF HasCapacity(requests, now)
       THEN /\ rpc' = [rpc EXCEPT ![c] = "granted"]
            /\ rhist' = [rhist EXCEPT ![c] = h]
            /\ UNCHANGED wakeAt
       ELSE /\ rpc' = [rpc EXCEPT ![c] = "sleeping"]
            /\ wakeAt' = [wakeAt EXCEPT ![c] = now + TimeToWait(requests, now)]
            /\ rhist' = [rhist EXCEPT ![c] =
                   [h EXCEPT !.sleptAt = now,
                             !.sleepNeed = SeqMin(InWindow(requests, now))
                                           + WindowTicks - now]]

\* makeRequest(requestFn) is called: waitForAvailability runs to its first await
MakeRequest(c) ==
    /\ rpc[c] = "idle"
    /\ Len(requests) + Cardinality({d \in Callers : rpc[d] \in {"sleeping", "granted"}})
          < MaxRequests
    /\ LET full == Len(InWindow(requests, now)) >= Capacity
       IN Attempt(c, [NoHist EXCEPT
              !.blocked = full,
              !.deadline = IF full THEN SeqMin(InWindow(requests, now)) + WindowTicks
                           ELSE 0])
    /\ UNCHANGED <<now, schedVars, storeVars, engVars, histVars, callVars, srvVars>>

\* the sleep's timer fires (at its due time or later) and the loop turns again
WakeUp(c) ==
    /\ rpc[c] = "sleeping"
    /\ now >= wakeAt[c]
    /\ Attempt(c, rhist[c])
    /\ UNCHANGED <<now, schedVars, storeVars, engVars, histVars, callVars, srvVars>>

\* waitForAvailability has resolved: this.recordRequest(), then requestFn() starts
RecordRequest(c) ==
    /\ rpc[c] = "granted"
    /\ requests' = Append(requests, now)
    /\ rpc' = [rpc EXCEPT ![c] = "calling"]
    /\ rhist' = [rhist EXCEPT ![c].recordedAt = now]
    /\ UNCHANGED <<now, wakeAt, schedVars, storeVars, engVars, histVars, callVars, srvVars>>

\* requestFn() settles and makeRequest returns or rethrows
RequestSettles(c) ==
    /\ rpc[c] = "calling"
    /\ rpc' = [rpc EXCEPT ![c] = "idle"]
    /\ UNCHANGED <<now, requests, wakeAt, rhist, schedVars, storeVars, engVars,
                   histVars, callVars, srvVars>>

\* the clock advances
Tick ==
    /\ now < MaxTime
    /\ now' = now + 1
    /\ UNCHANGED <<requests, rpc, wakeAt, rhist, schedVars, storeVars, engVars,
                   histVars, callVars, srvVars>>

\* ------------------------------------------------------------------------
\* Local store and remote calendar: data
\* ------------------------------------------------------------------------
Integrations == DOMAIN integ

\* tenants (company_id) and calendar ids that appointments are booked for
Companies == {1, 2}
Calendars == {"primary", "work"}

\* the synced content of a record (title, description, time range, location,
\* meeting link, attendees, all-day flag), taken as one value
DataValues == {"d1", "d2"}
OtherData(d) == IF d = "d1" THEN "d2" ELSE "d1"

\* created_by: a user of the tenant, or the tenant's admin as resolved by
\* getCompanyAdminUser for rows created by a pull
User(company) == <<"user", company>>
Admin(company) == <<"admin", company>>

\* HTTP outcomes of a remote call once withRetry has given up or succeeded:
\* 200, or the status of the last failed attempt (0 = the fetch itself failed)
ErrorCodes == {0, 429, 500, 401, 403}

\* isPersistentError, by the status the error message carries
IsPersistentCode(code) == code \in {410, 404, 401, 403}

\* Error messages, as the words they are made of.  String.includes is
\* modelled as "one of the words is the keyword".
\* message.toLowerCase(), word by word
Lower(w) ==
    CASE w = "Token" -> "token"
      [] w = "No" -> "no"
      [] w = "Bad" -> "bad"
      [] w = "Request" -> "request"
      [] w = "INVALID_GRANT" -> "invalid_grant"
      [] OTHER -> w

PersistentKeywords == {"410", "404", "401", "403", "invalid_grant", "token_revoked"}

\* isPersistentError(error) on error.message
IsPersistentError(message) ==
    \E k \in 1..Len(message) : Lower(message[k]) \in PersistentKeywords

\* what the token endpoint answers to a rejected refresh: the JSON body's
\* error and error_description ("" = absent)
Rejections ==
    {[error |-> "invalid_grant", error_description |-> <<>>],
     [error |-> "invalid_grant",
      error_description |-> <<"Token", "has", "been", "expired", "or", "revoked.">>],
     [error |-> "invalid_grant", error_description |-> <<"Bad", "Request">>],
     [error |-> "INVALID_GRANT", error_description |-> <<>>]}

\* refreshAccessToken:
\*   new Error(`Token refresh failed: ${error_description || error}`)
RefreshFailedMessage(body) ==
    <<"Token", "refresh", "failed:">>
        \o (IF body.error_description # <<>> THEN body.error_description
            ELSE <<body.error>>)

\* fetch() itself rejecting (no response)
NetworkMessage == <<"fetch", "failed">>

\* ensureValidToken: new Error('No refresh token available')
NoRefreshTokenMessage == <<"No", "refresh", "token", "available">>
\* ensureValidToken: new Error('No access token available')
NoAccessTokenMessage == <<"No", "access", "token", "available">>

\* what ensureValidToken may throw, as seen by the batch loop
AuthMessage(out) ==
    CASE out = "invalid_grant" ->
             RefreshFailedMessage([error |-> "invalid_grant", error_description |-> <<>>])
      [] out = "invalid_grant_described" ->
             RefreshFailedMessage(
                 [error |-> "invalid_grant",
                  error_description |-> <<"Token", "has", "been", "expired", "or",
                                          "revoked.">>])
      [] out = "no_refresh_token" -> NoRefreshTokenMessage
      [] out = "no_access_token" -> NoAccessTokenMessage
      [] OTHER -> NetworkMessage

AuthFailures ==
    {"invalid_grant", "invalid_grant_described", "no_refresh_token", "no_access_token",
     "timeout"}

\* fetchGoogleCalendarEvents and the other Calendar calls:
\*   new Error(`Google Calendar API error: ${response.status} - ${errorText}`)
ApiErrorMessage(status) ==
    <<"Google", "Calendar", "API", "error:", ToString(status), "-", "body">>

\* the same message with the response text spelled out: errorText is
\* whatever the server sent, a backend error or a quota notice that names
\* the consumer by a number
ResponseTexts ==
    {<<"backend", "error">>,
     <<"quota", "exceeded", "for", "consumer", "403">>,
     <<"internal", "error", "ref", "404">>}
ApiErrorText(status, errorText) ==
    <<"Google", "Calendar", "API", "error:", ToString(status), "-">> \o errorText

\* the statuses a Calendar call may fail with
FailureStatuses == {500, 503, 429, 401, 403, 404, 410}

\* what one Calendar call may throw
CalendarErrors ==
    {NetworkMessage}
        \cup {ApiErrorText(st, txt) : st \in FailureStatuses, txt \in ResponseTexts}

\* ------------------------------------------------------------------------
\* GoogleCalendarSyncService.withRetry
\* ------------------------------------------------------------------------
\* constructor: RETRY_ATTEMPTS || '3', RETRY_DELAY_MS || '1000'
retryAttempts == 3
retryDelay == 1000

\* what one call of fn may throw: a remote call's errors, or a refresh's
FnErrors ==
    {NetworkMessage, ApiErrorMessage(500), ApiErrorMessage(429),
     ApiErrorMessage(401), ApiErrorMessage(403), ApiErrorMessage(404),
     ApiErrorMessage(410), <<"token_revoked">>}
RefreshErrors == {NetworkMessage} \cup {RefreshFailedMessage(b) : b \in Rejections}

NoRetry ==
    [pc |-> "idle", op |-> "none", n |-> 0, i |-> 0, attempts |-> 0,
     sleeps |-> <<>>, errors |-> <<>>, lastError |-> <<>>]

\* const delay = this.retryDelay * (i + 1)
DelayConstant(i) == retryDelay
Delay(i) == retryDelay * (i + 1)

\* if (this.isPersistentError(error) || i === maxRetries - 1) break
BreaksOnlyOnLast(error, i, maxRetries) == i = maxRetries - 1
Breaks(error, i, maxRetries) == IsPersistentError(error) \/ i = maxRetries - 1

\* withRetry(fn, maxRetries) is entered: the loop starts, or with no turn to
\* take the undefined lastError is thrown at once
Enter(op, maxRetries) ==
    [NoRetry EXCEPT !.op = op, !.n = maxRetries,
                    !.pc = IF maxRetries > 0 THEN "attempt" ELSE "thrown"]

\* one turn of the loop: await fn(); it returns, or it throws and the loop
\* breaks or sleeps
Turn(r, out) ==
    IF out = <<"ok">>
    THEN [r EXCEPT !.pc = "returned", !.attempts = @ + 1]
    ELSE IF Breaks(out, r.i, r.n)
         THEN [r EXCEPT !.pc = "thrown", !.attempts = @ + 1,
                        !.errors = Append(@, out), !.lastError = out]
         ELSE [r EXCEPT !.pc = "sleep", !.attempts = @ + 1,
                        !.errors = Append(@, out), !.lastError = out,
                        !.sleeps = Append(@, Delay(r.i))]

\* a caller runs withRetry(fn, maxRetries)
WithRetryCall ==
    /\ retry.pc \in {"idle", "returned", "thrown"}
    /\ tok.pc = "idle"
    /\ \E maxRetries \in 0..MaxAttempts : retry' = Enter("fn", maxRetries)
    /\ UNCHANGED <<schedVars, rateVars, storeVars, engVars, histVars, sent, tries, tok, srvVars>>

WithRetryAttempt ==
    /\ retry.pc = "attempt"
    /\ \E out \in {<<"ok">>} \cup (IF retry.op = "refresh" THEN RefreshErrors ELSE FnErrors) :
        retry' = Turn(retry, out)
    /\ UNCHANGED <<schedVars, rateVars, storeVars, engVars, histVars, sent, tries, tok, srvVars>>

\* one turn of withRetry around a Calendar call: the fetch rejects, or the
\* response is not ok and the error carries its status and text
CalendarAttempt ==
    /\ retry.pc = "attempt"
    /\ retry.op = "fn"
    /\ \E out \in {<<"ok">>} \cup CalendarErrors : retry' = Turn(retry, out)
    /\ UNCHANGED <<schedVars, rateVars, storeVars, engVars, histVars, sent, tries, tok, srvVars>>

\* the setTimeout of the backoff fires: i++
WithRetryWake ==
    /\ retry.pc = "sleep"
    /\ retry' = [retry EXCEPT !.pc = "attempt", !.i = @ + 1]
    /\ UNCHANGED <<schedVars, rateVars, storeVars, engVars, histVars, sent, tries, tok, srvVars>>

\* requestFn() of makeRequest is () => withRetry(fetch ...): one turn of
\* withRetry's loop for caller c sends one HTTP request to the Calendar
\* API.  The slot was recorded once, before requestFn() started; the
\* backoff between turns is shorter than a tick.  requestFn() settles when
\* the loop returns or breaks.
HttpAttempt(c) ==
    /\ rpc[c] = "calling"
    /\ Len(InWindow(sent, now)) < MaxSent
    /\ sent' = Append(InWindow(sent, now), now)
    /\ \E out \in {<<"ok">>} \cup FnErrors :
        IF out = <<"ok">> \/ Breaks(out, tries[c], retryAttempts)
        THEN /\ rpc' = [rpc EXCEPT ![c] = "idle"]
             /\ tries' = [tries EXCEPT ![c] = 0]
        ELSE /\ tries' = [tries EXCEPT ![c] = @ + 1]
             /\ UNCHANGED rpc
    /\ UNCHANGED <<now, requests, wakeAt, rhist, schedVars, storeVars, engVars,
                   histVars, retry, tok, srvVars>>

\* ------------------------------------------------------------------------
\* GoogleCalendarSyncService.ensureValidToken, refreshAccessToken and
\* updateIntegrationTokens
\* ------------------------------------------------------------------------
\* the refresh margin, in minutes: Date.now() + 5 * 60 * 1000
FiveMinutes == 5
\* expires_in of a refreshed token, in minutes
ExpiresIn == 60

\* the integration rows ensureValidToken may be called with; left is
\* token_expires_at - now in minutes, "none" is null
TokenRows ==
    [access_token : {"none", "A0"}, refresh_token : {"none", "R0"},
     left : {-1, 4, 5, 6}]

NoTok ==
    [pc |-> "idle",
     integration |-> [access_token |-> "none", refresh_token |-> "none", left |-> -1],
     row |-> [access_token |-> "none", refresh_token |-> "none", left |-> -1],
     writes |-> 0, applied |-> FALSE, rotated |-> "none", result |-> "none",
     error |-> <<>>]

CallIdle ==
    /\ sent = <<>>
    /\ tries = [c \in Callers |-> 0]
    /\ retry = NoRetry
    /\ tok = NoTok

\* if (expiresAt <= fiveMinutesFromNow)
NeedsRefreshStrictly(left) == left < FiveMinutes
NeedsRefresh(left) == left <= FiveMinutes

\* updateIntegrationTokens: one update of the row; an undefined
\* refresh_token leaves the column alone
UpdateAccessTokenOnly(row, tokens) ==
    [row EXCEPT !.access_token = tokens.access_token]
UpdateTokensAndCursor(row, tokens) ==
    [row EXCEPT !.access_token = tokens.access_token, !.sync_token = 0]
UpdateIntegrationTokens(row, tokens) ==
    [row EXCEPT !.access_token = tokens.access_token,
                !.refresh_token = IF tokens.refresh_token # "none"
                                  THEN tokens.refresh_token ELSE @,
                !.left = tokens.expires_in]

\* syncSingleIntegration calls ensureValidToken(integration), up to the
\* refresh: the checks throw, the stored token is returned, or
\* refreshAccessToken enters withRetry
TokenCall ==
    /\ tok.pc \in {"idle", "phases", "caught"}
    /\ \E integration \in TokenRows :
        LET t == [NoTok EXCEPT !.integration = integration, !.row = integration]
        IN IF integration.access_token = "none"
           THEN /\ tok' = [t EXCEPT !.pc = "thrown", !.error = NoAccessTokenMessage]
                /\ retry' = NoRetry
           ELSE IF NeedsRefresh(integration.left)
           THEN IF integration.refresh_token = "none"
                THEN /\ tok' = [t EXCEPT !.pc = "thrown", !.error = NoRefreshTokenMessage]
                     /\ retry' = NoRetry
                ELSE /\ tok' = [t EXCEPT !.pc = "refreshing"]
                     /\ retry' = Enter("refresh", retryAttempts)
           ELSE /\ tok' = [t EXCEPT !.pc = "returned", !.result = integration.access_token]
                /\ retry' = NoRetry
    /\ UNCHANGED <<schedVars, rateVars, storeVars, engVars, histVars, sent, tries, srvVars>>

\* refreshAccessToken returned newTokens: updateIntegrationTokens (its
\* failure is swallowed), return newTokens.access_token
TokenRefreshed ==
    /\ tok.pc = "refreshing"
    /\ retry.pc = "returned"
    /\ \E rotated \in {"none", "R1"}, storeOk \in BOOLEAN :
        LET newTokens == [access_token |-> "A1", refresh_token |-> rotated,
                          expires_in |-> ExpiresIn]
            tokens == [access_token |-> newTokens.access_token,
                       refresh_token |-> IF newTokens.refresh_token # "none"
                                         THEN newTokens.refresh_token
                                         ELSE tok.integration.refresh_token,
                       expires_in |-> newTokens.expires_in]
        IN tok' = [tok EXCEPT
                      !.pc = "returned",
                      !.row = IF storeOk THEN UpdateIntegrationTokens(@, tokens) ELSE @,
                      !.writes = @ + 1,
                      !.applied = storeOk,
                      !.rotated = rotated,
                      !.result = newTokens.access_token]
    /\ UNCHANGED <<schedVars, rateVars, storeVars, engVars, histVars, sent, tries, retry, srvVars>>

\* refreshAccessToken threw what withRetry ended with
TokenRefreshFailed ==
    /\ tok.pc = "refreshing"
    /\ retry.pc = "thrown"
    /\ tok' = [tok EXCEPT !.pc = "thrown", !.error = retry.lastError]
    /\ UNCHANGED <<schedVars, rateVars, storeVars, engVars, histVars, sent, tries, retry, srvVars>>

\* syncSingleIntegration after ensureValidToken: on to Phase A, or through
\* its catch into the batch loop's
SyncSingleContinues ==
    /\ tok.pc \in {"returned", "thrown"}
    /\ tok' = [tok EXCEPT !.pc = IF tok.pc = "returned" THEN "phases" ELSE "caught"]
    /\ UNCHANGED <<schedVars, rateVars, storeVars, engVars, histVars, sent, tries, retry, srvVars>>

SeqToSet(s) == {s[k] : k \in 1..Len(s)}

ItemIds(s) == {s[k].id : k \in 1..Len(s)}

RECURSIVE SetToSeq(_)
\* a set of numbers as an ascending sequence
SetToSeq(S) ==
    IF S = {} THEN <<>>
    ELSE LET m == CHOOSE x \in S : \A y \in S : x <= y
         IN <<m>> \o SetToSeq(S \ {m})

Reverse(s) == [k \in 1..Len(s) |-> s[Len(s) + 1 - k]]

Min2(a, b) == IF a <= b THEN a ELSE b

\* slice(0, n), .limit(n): the first n elements, all of them when fewer
AllOf(s, n) == s
FirstN(s, n) == SubSeq(s, 1, Min2(n, Len(s)))

ApptIds == 1..Len(appts)
EventIds == 1..Len(events)

NoInt == [id |-> 0, company_id |-> 0, calendar_id |-> "", sync_token |-> 0]
NoPush == [appt |-> 0, storedExt |-> 0, created |-> 0]
\* the query of a pass that has not built one
NoParams == [maxResults |-> "0"]
NoPass == [int |-> 0, fetched |-> FALSE, entries |-> <<>>, itemFails |-> 0,
           cursorWrites |-> 0, cursorValue |-> 0, cursorStored |-> FALSE,
           done |-> FALSE, params |-> NoParams]
NoItem == [event |-> 0, kind |-> "none", match |-> "none", op |-> "none",
           ok |-> TRUE]
NoProbe == [appt |-> 0, code |-> 0, cancelled |-> FALSE]
NoSweeps == [runs |-> 0, cancelled |-> {}, listed |-> {}]
\* no integration-level failure: code is the status the list call ended
\* with (-1 = none), auth what ensureValidToken threw
NoFail == [int |-> 0, code |-> -1, auth |-> "none"]
\* the batch of a cycle, the integrations handed to syncSingleIntegration,
\* those it threw for and those it returned for, and the counters of
\* syncAllIntegrations
NoRound == [batch |-> {}, entered |-> {}, failed |-> {}, lastFail |-> NoFail,
            succeeded |-> {}, processedCount |-> 0, successCount |-> 0,
            errorCount |-> 0]

\* a row of google_calendar_integrations that the listing selects
ConnectedRow(i) ==
    [company_id |-> i, calendar_id |-> "primary", sync_token |-> 0,
     status |-> "connected", is_active |-> TRUE, sync_enabled |-> TRUE,
     access_token |-> "A0", refresh_token |-> "R0", left |-> FiveMinutes]

\* the same row in one of the conditions the listing may find it in
RowKinds == {"eligible", "error", "disabled", "inactive", "sync_off", "no_token"}
RowOfKind(i, kind) ==
    [ConnectedRow(i) EXCEPT
        !.status = IF kind \in {"error", "disabled"} THEN kind ELSE @,
        !.is_active = kind # "inactive",
        !.sync_enabled = kind # "sync_off",
        !.access_token = IF kind = "no_token" THEN "null" ELSE @]

EngineIdle ==
    /\ appts = <<>>
    /\ events = <<>>
    /\ rseq = 1
    /\ integ = [i \in {1} |-> ConnectedRow(i)]
    /\ epc = "idle"
    /\ cycle = 0
    /\ batch = <<>>
    /\ cur = NoInt
    /\ items = <<>>
    /\ resp = 0
    /\ lastPush = NoPush
    /\ bpass = NoPass
    /\ lastItem = NoItem
    /\ lastProbe = NoProbe
    /\ sweeps = NoSweeps
    /\ round = NoRound
    /\ unapplied = {}

\* what a call may come back with while faults may still be injected
RemoteOutcomes == IF faultsLeft > 0 THEN {200} \cup ErrorCodes ELSE {200}
StoreOutcomes == IF faultsLeft > 0 THEN {TRUE, FALSE} ELSE {TRUE}

\* ------------------------------------------------------------------------
\* Users of the two systems (the environment)
\* ------------------------------------------------------------------------
\* a user of the application books an appointment: no google_event_id yet
LocalCreate(company, cal) ==
    /\ envLeft > 0
    /\ Len(appts) < MaxAppts
    /\ appts' = Append(appts, [company_id |-> company, google_calendar_id |-> cal,
                               google_event_id |-> 0, status |-> "scheduled",
                               data |-> "d1", created_by |-> User(company),
                               created_at |-> Len(appts) + 1])
    /\ envLeft' = envLeft - 1
    /\ UNCHANGED <<events, rseq, integ, epc, cycle, batch, cur, items, resp,
                   faultsLeft, histVars, schedVars, rateVars, callVars, srvVars>>

\* a user of the application cancels an appointment
LocalCancel(a) ==
    /\ envLeft > 0
    /\ a \in ApptIds
    /\ appts[a].status = "scheduled"
    /\ appts' = [appts EXCEPT ![a].status = "cancelled"]
    /\ envLeft' = envLeft - 1
    /\ UNCHANGED <<events, rseq, integ, epc, cycle, batch, cur, items, resp,
                   faultsLeft, histVars, schedVars, rateVars, callVars, srvVars>>

\* the owner of integration i's calendar adds an event there
RemoteCreate(i) ==
    /\ envLeft > 0
    /\ Len(events) < MaxEvents
    /\ events' = Append(events, [cal |-> i, status |-> "confirmed", data |-> "d1",
                                 seq |-> rseq + 1, origin |-> 0])
    /\ rseq' = rseq + 1
    /\ envLeft' = envLeft - 1
    /\ UNCHANGED <<appts, integ, epc, cycle, batch, cur, items, resp,
                   faultsLeft, histVars, schedVars, rateVars, callVars, srvVars>>

\* the calendar's owner edits an event
RemoteEdit(e) ==
    /\ envLeft > 0
    /\ e \in EventIds
    /\ events[e].status = "confirmed"
    /\ events' = [events EXCEPT ![e].data = OtherData(@), ![e].seq = rseq + 1]
    /\ rseq' = rseq + 1
    /\ envLeft' = envLeft - 1
    /\ UNCHANGED <<appts, integ, epc, cycle, batch, cur, items, resp,
                   faultsLeft, histVars, schedVars, rateVars, callVars, srvVars>>

\* the calendar's owner deletes an event: the API reports it as cancelled
RemoteCancel(e) ==
    /\ envLeft > 0
    /\ e \in EventIds
    /\ events[e].status = "confirmed"
    /\ events' = [events EXCEPT ![e].status = "cancelled", ![e].seq = rseq + 1]
    /\ rseq' = rseq + 1
    /\ envLeft' = envLeft - 1
    /\ UNCHANGED <<appts, integ, epc, cycle, batch, cur, items, resp,
                   faultsLeft, histVars, schedVars, rateVars, callVars, srvVars>>

\* the remote side drops an event for good: from now on a get answers 404/410
\* and no list response carries it
RemotePurge(e) ==
    /\ envLeft > 0
    /\ e \in EventIds
    /\ events[e].status # "gone"
    /\ events' = [events EXCEPT ![e].status = "gone"]
    /\ envLeft' = envLeft - 1
    /\ UNCHANGED <<appts, rseq, integ, epc, cycle, batch, cur, items, resp,
                   faultsLeft, histVars, schedVars, rateVars, callVars, srvVars>>

\* ------------------------------------------------------------------------
\* supabaseService: queries and writes
\* ------------------------------------------------------------------------
\* getActiveGoogleCalendarIntegrations: the eligible rows, as read at cycle start
IsEligibleAnyStatus(row) ==
    /\ row.is_active
    /\ row.sync_enabled
    /\ row.access_token # "null"
IsEligible(row) ==
    /\ row.is_active
    /\ row.status = "connected"
    /\ row.sync_enabled
    /\ row.access_token # "null"

GetActiveIntegrations ==
    LET ids == {i \in Integrations : IsEligible(integ[i])}
        Row(i) == [id |-> i, company_id |-> integ[i].company_id,
                   calendar_id |-> integ[i].calendar_id,
                   sync_token |-> integ[i].sync_token]
        sorted == SetToSeq(ids)
    IN [k \in 1..Len(sorted) |-> Row(sorted[k])]

\* getUnsyncedLocalAppointments: the WHERE clause
IsUnsyncedAnyExt(row, company, cal) ==
    /\ row.company_id = company
    /\ row.google_calendar_id = cal
    /\ row.status # "cancelled"
IsUnsynced(row, company, cal) ==
    /\ row.company_id = company
    /\ row.google_calendar_id = cal
    /\ row.google_event_id = 0
    /\ row.status # "cancelled"

\* getUnsyncedLocalAppointments, ordered by created_at ascending
GetUnsyncedLocalAppointments(company, cal) ==
    LET ids == SetToSeq({a \in ApptIds : IsUnsynced(appts[a], company, cal)})
    IN [k \in 1..Len(ids) |-> [id |-> ids[k], data |-> appts[ids[k]].data]]

\* getSyncedAppointments: the WHERE clause (the calendar is not part of it)
IsSyncedAnyStatus(row, company) ==
    /\ row.company_id = company
    /\ row.google_event_id # 0
IsSynced(row, company) ==
    /\ row.company_id = company
    /\ row.google_event_id # 0
    /\ row.status # "cancelled"

\* getSyncedAppointments, ordered by created_at descending, limited to 100
GetSyncedAppointments(company) ==
    LET ids == Reverse(SetToSeq({a \in ApptIds : IsSynced(appts[a], company)}))
        rows == [k \in 1..Len(ids) |->
                    [id |-> ids[k], google_event_id |-> appts[ids[k]].google_event_id]]
    IN FirstN(rows, SyncedLimit)

\* the rows a (company_id, google_event_id) pair designates
RowsByEvent(store, company, ext) ==
    {a \in 1..Len(store) : store[a].company_id = company
                           /\ store[a].google_event_id = ext}

\* getAppointmentByGoogleEventId: maybeSingle() yields the row, or null (0)
\* when none matches; an error (several rows, store failure) is swallowed
\* into null as well
GetAppointmentByGoogleEventId(store, company, ext, storeOk) ==
    LET rows == RowsByEvent(store, company, ext)
    IN IF storeOk /\ Cardinality(rows) = 1 THEN CHOOSE a \in rows : TRUE ELSE 0

\* cancelAppointment: returns false, and changes nothing, when the store fails
CancelKeepsStatus(store, a, storeOk) == store
CancelAppointment(store, a, storeOk) ==
    IF storeOk THEN [store EXCEPT ![a].status = "cancelled"] ELSE store

\* upsertAppointment: INSERT ... ON CONFLICT (company_id, google_event_id)
\* DO UPDATE, with the columns upsertAppointmentFromGoogleEvent provides
\* a payload with the created_at the store gives or keeps: the column's
\* default on an insert (the insertion order stands for the clock), the
\* stored value on a conflict, whether the payload repeats it or omits it
Stamped(row, t) ==
    [f \in DOMAIN row \cup {"created_at"} |->
        IF f = "created_at" THEN t ELSE row[f]]

UpsertAlwaysInsert(store, row, keepOwner) ==
    Append(store, Stamped(row, Len(store) + 1))
UpsertAppointment(store, row, keepOwner) ==
    LET hit == RowsByEvent(store, row.company_id, row.google_event_id)
    IN IF hit = {} THEN Append(store, Stamped(row, Len(store) + 1))
       ELSE LET a == CHOOSE x \in hit : TRUE
            IN [store EXCEPT ![a] =
                   [Stamped(row, store[a].created_at) EXCEPT !.created_by =
                       IF keepOwner THEN store[a].created_by ELSE row.created_by]]

\* ------------------------------------------------------------------------
\* Remote calendar API
\* ------------------------------------------------------------------------
\* GET .../events?...: with a syncToken the entries changed since the token
\* was issued, else every entry of the queried window
ListEntries(i, token) ==
    LET ids == SetToSeq({e \in EventIds :
                   /\ events[e].cal = i
                   /\ events[e].status # "gone"
                   /\ (token = 0 \/ events[e].seq > token)})
    IN [k \in 1..Len(ids) |->
           [id |-> ids[k], status |-> events[ids[k]].status,
            data |-> events[ids[k]].data]]

\* GET .../events/{id}: the statuses the calendar of integration i may answer
ProbeAnswers(i, ext) ==
    IF ext \in EventIds /\ events[ext].cal = i
    THEN IF events[ext].status = "gone" THEN {404, 410} ELSE {200}
    ELSE {404}

\* ------------------------------------------------------------------------
\* GoogleCalendarSyncService: the batch cycle
\* ------------------------------------------------------------------------
\* the for loop of syncAllIntegrations moves on, or the cycle ends
AbortsCycle ==
    /\ epc' = "idle"
    /\ cur' = NoInt
    /\ batch' = batch
NextIntegration ==
    IF batch = <<>>
    THEN /\ epc' = "idle"
         /\ cur' = NoInt
         /\ batch' = batch
    ELSE /\ epc' = "token"
         /\ cur' = Head(batch)
         /\ batch' = Tail(batch)

\* syncAllIntegrations up to the first integration: the eligible rows are
\* read (a store failure reads as none) and capped
StartCycle ==
    /\ epc = "idle"
    /\ cycle' = Min2(cycle + 1, MaxCycles)
    /\ \E storeOk \in StoreOutcomes :
        LET integrations == IF storeOk THEN GetActiveIntegrations ELSE <<>>
            batchIntegrations == FirstN(integrations, maxBatch)
        IN /\ faultsLeft' = IF storeOk THEN faultsLeft ELSE faultsLeft - 1
           /\ round' = [NoRound EXCEPT !.batch = ItemIds(batchIntegrations)]
           /\ IF batchIntegrations = <<>>
              THEN UNCHANGED <<epc, cur, batch>>
              ELSE /\ epc' = "token"
                   /\ cur' = Head(batchIntegrations)
                   /\ batch' = Tail(batchIntegrations)
    /\ lastPush' = NoPush
    /\ bpass' = NoPass
    /\ lastItem' = NoItem
    /\ lastProbe' = NoProbe
    /\ UNCHANGED <<storeVars, items, resp, envLeft, sweeps, unapplied, schedVars,
                   rateVars, callVars, srvVars>>

\* the counters of the batch loop: processedCount++ when a turn begins,
\* successCount++ when syncSingleIntegration returns, errorCount++ in the catch
TurnBegins(r, i) ==
    [r EXCEPT !.entered = @ \cup {i}, !.processedCount = @ + 1]
TurnReturns(r, i) ==
    [r EXCEPT !.succeeded = @ \cup {i}, !.successCount = @ + 1]
TurnThrows(r, i, fail) ==
    [r EXCEPT !.failed = @ \cup {i}, !.errorCount = @ + 1, !.lastFail = fail]

\* the catch of the batch loop: a persistent error marks the integration
MarkAlways(persistent) == integ' = [integ EXCEPT ![cur.id].status = "error"]
MarkIfPersistent(persistent) ==
    integ' = IF persistent THEN [integ EXCEPT ![cur.id].status = "error"] ELSE integ

\* the row of the integration after ensureValidToken refreshed its token:
\* updateIntegrationTokens with the new access token, the refresh token
\* kept, and the new expiry; a store failure is swallowed
RefreshedRow(row, storeOk) ==
    IF storeOk
    THEN UpdateIntegrationTokens(row, [access_token |-> "A1",
                                       refresh_token |-> row.refresh_token,
                                       expires_in |-> ExpiresIn])
    ELSE row

\* syncSingleIntegration: ensureValidToken returns a token or throws.
\* refreshes says whether the token may be due: when it is, the refreshed
\* token is written to the integration's row before it is returned.
EnsureValidTokenWhere(refreshes) ==
    /\ epc = "token"
    /\ \E out \in IF faultsLeft > 0 THEN {"ok"} \cup AuthFailures ELSE {"ok"} :
        IF out = "ok"
        THEN /\ epc' = "A_list"
             /\ round' = TurnBegins(round, cur.id)
             /\ \E refreshed \in refreshes, storeOk \in StoreOutcomes :
                   /\ (~refreshed) => storeOk
                   /\ integ' = IF refreshed
                               THEN [integ EXCEPT ![cur.id] = RefreshedRow(@, storeOk)]
                               ELSE integ
                   /\ faultsLeft' = IF storeOk THEN faultsLeft ELSE faultsLeft - 1
             /\ UNCHANGED <<cur, batch>>
        ELSE /\ MarkIfPersistent(IsPersistentError(AuthMessage(out)))
             /\ faultsLeft' = faultsLeft - 1
             /\ round' = TurnThrows(TurnBegins(round, cur.id), cur.id,
                                    [int |-> cur.id, code |-> -1, auth |-> out])
             /\ NextIntegration
    /\ lastPush' = NoPush
    /\ bpass' = NoPass
    /\ lastItem' = NoItem
    /\ lastProbe' = NoProbe
    /\ UNCHANGED <<appts, events, rseq, cycle, items, resp, envLeft, sweeps,
                   unapplied, schedVars, rateVars, callVars, srvVars>>

\* ensureValidToken with a token that is not due, the token columns left out
EnsureValidToken == EnsureValidTokenWhere({FALSE})
\* ensureValidToken with a token that may be due
EnsureValidTokenStored == EnsureValidTokenWhere(BOOLEAN)

\* ---- Phase A: syncLocalAppointmentsToGoogle ----
\* the unsynced rows are read; a store failure ends the phase (outer catch)
PhaseAList ==
    /\ epc = "A_list"
    /\ \E storeOk \in StoreOutcomes :
        LET unsyncedAppointments ==
                IF storeOk
                THEN GetUnsyncedLocalAppointments(cur.company_id, cur.calendar_id)
                ELSE <<>>
        IN /\ items' = unsyncedAppointments
           /\ epc' = IF unsyncedAppointments = <<>> THEN "B_fetch" ELSE "A_items"
           /\ faultsLeft' = IF storeOk THEN faultsLeft ELSE faultsLeft - 1
    /\ lastPush' = NoPush
    /\ UNCHANGED <<storeVars, cycle, batch, cur, resp, envLeft, bpass, lastItem,
                   lastProbe, sweeps, unapplied, schedVars, rateVars, round, callVars, srvVars>>

\* the event createGoogleEvent's POST inserts into the calendar
PushedEvent(appointment) ==
    [cal |-> cur.id, status |-> "confirmed", data |-> appointment.data,
     seq |-> rseq + 1, origin |-> appointment.id]

\* updateAppointmentWithGoogleEventId
UpdateAppointmentWithGoogleEventId(store, a, ext) ==
    [store EXCEPT ![a].google_event_id = ext]

\* what is left of a phase's loop after a turn: the catch inside the loop
\* body takes the item's error, and the for statement goes to the next item
RestAfterAborts(rest, failed) == IF failed THEN <<>> ELSE rest
RestAfter(rest, failed) == rest

\* where syncSingleIntegration stands after a turn of Phase A's loop: the
\* await of syncLocalAppointmentsToGoogle returns when the loop is through
AfterPushOverlaps(rest) == "B_fetch"
AfterPush(rest) == IF rest = <<>> THEN "B_fetch" ELSE "A_items"

\* one turn of Phase A's loop: createGoogleEvent (through makeRequest and
\* withRetry), then updateAppointmentWithGoogleEventId; any failure is
\* caught and the loop goes on.  code is what withRetry ends with; with
\* lostReply the first POST inserted its event but its reply never arrived,
\* and the retry inserted another.
PhaseAItem ==
    /\ epc = "A_items"
    /\ LET appointment == Head(items)
       IN \E code \in RemoteOutcomes, lostReply \in BOOLEAN, storeOk \in StoreOutcomes :
           LET used == (IF code # 200 \/ lostReply THEN 1 ELSE 0)
                       + (IF storeOk THEN 0 ELSE 1)
               made == IF code # 200 THEN 0 ELSE IF lostReply THEN 2 ELSE 1
           IN /\ used <= faultsLeft
              /\ (code # 200) => (~lostReply /\ storeOk)
              /\ faultsLeft' = faultsLeft - used
              /\ events' = IF made = 0 THEN events
                           ELSE IF made = 1 THEN Append(events, PushedEvent(appointment))
                           ELSE events \o <<PushedEvent(appointment),
                                            PushedEvent(appointment)>>
              /\ rseq' = IF made = 0 THEN rseq ELSE rseq + 1
              /\ appts' = IF code = 200 /\ storeOk
                          THEN UpdateAppointmentWithGoogleEventId(
                                   appts, appointment.id, Len(events) + made)
                          ELSE appts
              /\ lastPush' = [appt |-> appointment.id,
                              storedExt |-> appts[appointment.id].google_event_id,
                              created |-> made]
              /\ items' = RestAfter(Tail(items), code # 200 \/ ~storeOk)
    /\ epc' = AfterPush(items')
    /\ UNCHANGED <<integ, cycle, batch, cur, resp, envLeft, bpass, lastItem,
                   lastProbe, sweeps, unapplied, schedVars, rateVars, round, callVars, srvVars>>

\* ---- Phase B: syncGoogleEventsToLocal ----
\* what a throw of the list call does: syncGoogleEventsToLocal has no catch,
\* so it leaves syncSingleIntegration through its catch, which rethrows into
\* the catch of the batch loop
ListThrowSwallowed ==
    /\ epc' = "C_start"
    /\ cur' = cur
    /\ batch' = batch
ListThrowPropagates == NextIntegration

\* the window of a full listing, in days before and after the clock's reading
DaysBack == 30
DaysAhead == 365

\* buildSyncParams: the query of the list call, as the set of its parameters.
\* A truthy sync_token goes in alone; without one the listing is bounded in
\* time and ordered by start time.  t is Date.now(), counted in days.
BuildSyncParamsBounded(integration, t) ==
    IF integration.sync_token # 0
    THEN [singleEvents |-> "true", maxResults |-> "250",
          syncToken |-> integration.sync_token,
          orderBy |-> "startTime", timeMin |-> t - DaysBack,
          timeMax |-> t + DaysAhead]
    ELSE [singleEvents |-> "true", maxResults |-> "250",
          orderBy |-> "startTime", timeMin |-> t - DaysBack,
          timeMax |-> t + DaysAhead]
BuildSyncParams(integration, t) ==
    IF integration.sync_token # 0
    THEN [singleEvents |-> "true", maxResults |-> "250",
          syncToken |-> integration.sync_token]
    ELSE [singleEvents |-> "true", maxResults |-> "250",
          orderBy |-> "startTime", timeMin |-> t - DaysBack,
          timeMax |-> t + DaysAhead]

\* the cursor a query carries, 0 for none
CursorOf(params) ==
    IF "syncToken" \in DOMAIN params THEN params.syncToken ELSE 0

\* buildSyncParams and fetchGoogleCalendarEvents: the list call.  A failure
\* leaves syncSingleIntegration through its catch, into the batch loop's.
PhaseBFetch ==
    /\ epc = "B_fetch"
    /\ \E code \in RemoteOutcomes, withToken \in BOOLEAN :
        IF code = 200
        THEN LET syncParams == BuildSyncParams(cur, now)
                 entries == ListEntries(cur.id, CursorOf(syncParams))
             IN /\ items' = entries
                /\ resp' = IF withToken THEN rseq ELSE 0
                /\ epc' = IF entries = <<>> THEN "B_cursor" ELSE "B_items"
                /\ bpass' = [NoPass EXCEPT !.int = cur.id, !.fetched = TRUE,
                                          !.entries = entries,
                                          !.params = syncParams]
                /\ UNCHANGED <<integ, cur, batch, faultsLeft, round>>
        ELSE /\ withToken
             /\ MarkIfPersistent(IsPersistentCode(code))
             /\ faultsLeft' = faultsLeft - 1
             /\ round' = TurnThrows(round, cur.id,
                                    [int |-> cur.id, code |-> code, auth |-> "none"])
             /\ ListThrowPropagates
             /\ bpass' = [NoPass EXCEPT !.int = cur.id,
                                       !.params = BuildSyncParams(cur, now)]
             /\ UNCHANGED <<items, resp>>
    /\ lastItem' = NoItem
    /\ lastPush' = NoPush
    /\ UNCHANGED <<appts, events, rseq, cycle, envLeft, lastProbe, sweeps,
                   unapplied, schedVars, rateVars, callVars, srvVars>>

\* the row upsertAppointmentFromGoogleEvent builds from a remote entry
RowFromEvent(company, entry) ==
    [company_id |-> company, google_calendar_id |-> "primary",
     google_event_id |-> entry.id, status |-> "scheduled", data |-> entry.data,
     created_by |-> Admin(company)]

\* processGoogleEvent on the store: a cancelled entry cancels the row found
\* for it; an active entry is upserted.  lookupOk and writeOk say whether the
\* store answered the lookup and applied the write.
ProcessGoogleEvent(store, company, entry, lookupOk, writeOk) ==
    LET existingAppointment ==
            GetAppointmentByGoogleEventId(store, company, entry.id, lookupOk)
    IN IF entry.status = "cancelled"
       THEN IF existingAppointment # 0
            THEN CancelAppointment(store, existingAppointment, writeOk)
            ELSE store
       ELSE IF writeOk
            THEN UpsertAppointment(store, RowFromEvent(company, entry),
                                   existingAppointment # 0)
            ELSE store

RECURSIVE PhaseBPass(_, _, _)
\* the loop of syncGoogleEventsToLocal over the entries of one list
\* response, the store answering every call
PhaseBPass(store, company, entries) ==
    IF entries = <<>> THEN store
    ELSE PhaseBPass(ProcessGoogleEvent(store, company, Head(entries), TRUE, TRUE),
                    company, Tail(entries))

\* what processGoogleEvent does for an entry: the write it issues, if any
ItemOp(store, company, entry, lookupOk) ==
    IF entry.status = "cancelled"
    THEN IF GetAppointmentByGoogleEventId(store, company, entry.id, lookupOk) # 0
         THEN "cancel" ELSE "none"
    ELSE "upsert"

\* the state of the row the entry designates, before the entry is processed
MatchOf(store, company, ext) ==
    LET rows == RowsByEvent(store, company, ext)
    IN IF rows = {} THEN "none" ELSE store[CHOOSE a \in rows : TRUE].status

\* the store shows the state the entry reports for its event
Reflects(store, company, entry) ==
    IF entry.status = "cancelled"
    THEN \A a \in RowsByEvent(store, company, entry.id) : store[a].status = "cancelled"
    ELSE \E a \in RowsByEvent(store, company, entry.id) :
            store[a].status = "scheduled" /\ store[a].data = entry.data

\* one turn of Phase B's loop: processGoogleEvent
PhaseBItem ==
    /\ epc = "B_items"
    /\ LET entry == Head(items)
       IN \E lookupOk \in StoreOutcomes, writeOk \in StoreOutcomes :
           LET used == (IF lookupOk THEN 0 ELSE 1) + (IF writeOk THEN 0 ELSE 1)
               op == ItemOp(appts, cur.company_id, entry, lookupOk)
               next == ProcessGoogleEvent(appts, cur.company_id, entry, lookupOk, writeOk)
               failed == used > 0
           IN /\ used <= faultsLeft
              /\ (op = "none") => writeOk
              /\ faultsLeft' = faultsLeft - used
              /\ appts' = next
              /\ lastItem' = [event |-> entry.id, kind |-> entry.status,
                              match |-> MatchOf(appts, cur.company_id, entry.id),
                              op |-> op, ok |-> ~failed]
              /\ bpass' = [bpass EXCEPT !.itemFails = @ + (IF failed THEN 1 ELSE 0)]
              /\ unapplied' = IF Reflects(next, cur.company_id, entry)
                              THEN unapplied \ {entry.id}
                              ELSE unapplied \cup {entry.id}
              /\ items' = RestAfter(Tail(items), failed)
    /\ epc' = IF items' = <<>> THEN "B_cursor" ELSE "B_items"
    /\ UNCHANGED <<events, rseq, integ, cycle, batch, cur, resp, envLeft, lastPush,
                   lastProbe, sweeps, schedVars, rateVars, round, callVars, srvVars>>

\* whether syncGoogleEventsToLocal writes the cursor:  if (eventsData.nextSyncToken)
WritesCursorUnlessItemFailed(token, pass) == token # 0 /\ pass.itemFails = 0
WritesCursor(token, pass) == token # 0

\* updateIntegrationSyncData: returns false, and changes nothing, when the
\* store fails
UpdateIntegrationSyncData(rows, i, token, storeOk) ==
    IF storeOk THEN [rows EXCEPT ![i].sync_token = token] ELSE rows

\* the end of syncGoogleEventsToLocal: the cursor is replaced when the
\* response carried one
PhaseBCursor ==
    /\ epc = "B_cursor"
    /\ IF WritesCursor(resp, bpass)
       THEN \E storeOk \in StoreOutcomes :
               /\ integ' = UpdateIntegrationSyncData(integ, cur.id, resp, storeOk)
               /\ faultsLeft' = IF storeOk THEN faultsLeft ELSE faultsLeft - 1
               /\ bpass' = [bpass EXCEPT !.cursorWrites = @ + 1,
                                         !.cursorValue = resp,
                                         !.cursorStored = storeOk,
                                         !.done = TRUE]
       ELSE /\ bpass' = [bpass EXCEPT !.done = TRUE]
            /\ UNCHANGED <<integ, faultsLeft>>
    /\ epc' = "C_start"
    /\ lastItem' = NoItem
    /\ UNCHANGED <<appts, events, rseq, cycle, batch, cur, items, resp, envLeft,
                   lastPush, lastProbe, sweeps, unapplied, schedVars, rateVars,
                   round, callVars, srvVars>>

\* ---- Phase C: cleanupOrphanedAppointments ----
\* Math.random() < 0.1 decides whether the sweep runs; the synced rows are
\* read; a store failure ends the phase (outer catch)
PhaseCStart ==
    /\ epc = "C_start"
    /\ \E shouldRunCleanup \in BOOLEAN, storeOk \in StoreOutcomes :
        LET appointmentsWithGoogleId ==
                IF shouldRunCleanup /\ storeOk
                THEN GetSyncedAppointments(cur.company_id) ELSE <<>>
        IN /\ (~shouldRunCleanup) => storeOk
           /\ faultsLeft' = IF storeOk THEN faultsLeft ELSE faultsLeft - 1
           /\ sweeps' = IF shouldRunCleanup /\ storeOk
                        THEN [sweeps EXCEPT
                                 !.runs = Min2(@ + 1, MaxCycles),
                                 !.listed = {appointmentsWithGoogleId[k].id :
                                                k \in 1..Len(appointmentsWithGoogleId)}]
                        ELSE sweeps
           /\ items' = appointmentsWithGoogleId
           /\ IF appointmentsWithGoogleId = <<>>
              THEN /\ NextIntegration
                   /\ round' = TurnReturns(round, cur.id)
              ELSE /\ epc' = "C_items"
                   /\ UNCHANGED <<cur, batch, round>>
    /\ lastProbe' = NoProbe
    /\ bpass' = NoPass
    /\ resp' = 0
    /\ UNCHANGED <<storeVars, cycle, envLeft, lastPush, lastItem, unapplied,
                   schedVars, rateVars, callVars, srvVars>>

\* checkGoogleEventExists on the status withRetry ends with: false for 404
\* and 410, true for a 2xx; anything else is thrown ("error")
ExistsAnyErrorIsGone(code) == IF code = 200 THEN "exists" ELSE "gone"
CheckGoogleEventExists(code) ==
    IF code = 404 THEN "gone"
    ELSE IF code = 410 THEN "gone"
    ELSE IF code # 200 THEN "error"
    ELSE "exists"

\* one turn of Phase C's loop: the probe, and cancelAppointment when the
\* event is gone; an error is caught and the loop goes on
PhaseCItem ==
    /\ epc = "C_items"
    /\ LET appointment == Head(items)
       IN \E code \in ProbeAnswers(cur.id, appointment.google_event_id)
                       \cup (RemoteOutcomes \ {200}),
             storeOk \in StoreOutcomes :
           LET eventExists == CheckGoogleEventExists(code)
               used == (IF code \in ErrorCodes THEN 1 ELSE 0)
                       + (IF storeOk THEN 0 ELSE 1)
           IN /\ used <= faultsLeft
              /\ (eventExists # "gone") => storeOk
              /\ faultsLeft' = faultsLeft - used
              /\ appts' = IF eventExists = "gone"
                          THEN CancelAppointment(appts, appointment.id, storeOk)
                          ELSE appts
              /\ lastProbe' = [appt |-> appointment.id, code |-> code,
                               cancelled |-> eventExists = "gone" /\ storeOk]
              /\ sweeps' = IF eventExists = "gone" /\ storeOk
                           THEN [sweeps EXCEPT !.cancelled = @ \cup {appointment.id}]
                           ELSE sweeps
              /\ items' = RestAfter(Tail(items), eventExists = "error" \/ ~storeOk)
    /\ IF items' = <<>>
       THEN /\ NextIntegration
            /\ round' = TurnReturns(round, cur.id)
       ELSE UNCHANGED <<epc, cur, batch, round>>
    /\ UNCHANGED <<events, rseq, integ, cycle, resp, envLeft, lastPush, bpass,
                   lastItem, unapplied, schedVars, rateVars, callVars, srvVars>>

\* ---- the cycle within the process ----
\* a cycle is in flight: performSync is between isRunning = true and finally
InFlight == epc # "idle"

\* the cron task fires with no cycle in flight: performSync starts one
CronStartsCycle ==
    /\ proc.state = "running"
    /\ proc.cron = "on"
    /\ StartCycle

\* the cron task fires with a cycle in flight:  if (isRunning) return;
CronSkips ==
    /\ proc.state = "running"
    /\ proc.cron = "on"
    /\ InFlight
    /\ proc' = [proc EXCEPT !.beat = 1 - @]
    /\ UNCHANGED <<schedVars, rateVars, storeVars, engVars, histVars, callVars,
                   maxBatch>>

\* the cycle goes on when the call it awaits settles
CycleStep ==
    /\ proc.state = "running"
    /\ ~proc.hung
    /\ \/ EnsureValidToken
       \/ PhaseAList
       \/ PhaseAItem
       \/ PhaseBFetch
       \/ PhaseBItem
       \/ PhaseBCursor
       \/ PhaseCStart
       \/ PhaseCItem

\* a call the cycle awaits never settles: fetch and the store client are
\* called without a timeout or an abort signal
IoHangs ==
    /\ proc.state = "running"
    /\ InFlight
    /\ ~proc.hung
    /\ proc' = [proc EXCEPT !.hung = TRUE]
    /\ UNCHANGED <<schedVars, rateVars, storeVars, engVars, histVars, callVars,
                   maxBatch>>

\* the signal handlers and the shutdown timers against the cycle
LifeShutdown == ShutdownWhile(InFlight)
LifePoll == ShutdownPollWhile(InFlight)


\* ------------------------------------------------------------------------
\* Specifications
\* ------------------------------------------------------------------------
InitSched ==
    /\ SchedInit
    /\ ServerUp
    /\ CallIdle
    /\ initialTimer \in {"none", "armed"}
    /\ RateIdle
    /\ EngineIdle
    /\ faultsLeft = 0
    /\ envLeft = 0

NextSched ==
    \/ CronTick
    \/ InitialSyncTimer
    \/ \E k \in 1..MaxTriggers : SyncResolves(k)
    \/ \E k \in 1..MaxTriggers : SyncRejects(k)

SpecSched == InitSched /\ [][NextSched]_vars

\* the process from its start to its exit
InitServer ==
    /\ SchedInit
    /\ proc = ProcStarting
    /\ maxBatch = maxCompaniesPerBatch
    /\ CallIdle
    /\ initialTimer = "none"
    /\ RateIdle
    /\ EngineIdle
    /\ faultsLeft = 0
    /\ envLeft = 0

NextServer ==
    \/ StartServer
    \/ ServerCron
    \/ ServerInitialSync
    \/ \E k \in 1..MaxTriggers : ServerSyncResolves(k)
    \/ \E k \in 1..MaxTriggers : ServerSyncRejects(k)
    \/ ServerShutdown
    \/ ServerPoll
    \/ ForceExit

SpecServer == InitServer /\ [][NextServer]_vars

\* timers fire: a due callback of the poll or of the forced exit runs
SpecServerFair ==
    SpecServer /\ WF_vars(ServerPoll) /\ WF_vars(ForceExit)

InitRate ==
    /\ RateIdle
    /\ ServerUp
    /\ CallIdle
    /\ SchedInit
    /\ initialTimer = "none"
    /\ EngineIdle
    /\ faultsLeft = 0
    /\ envLeft = 0

NextRate ==
    \/ Tick
    \/ \E c \in Callers : MakeRequest(c)
    \/ \E c \in Callers : WakeUp(c)
    \/ \E c \in Callers : RecordRequest(c)
    \/ \E c \in Callers : RequestSettles(c)

SpecRate == InitRate /\ [][NextRate]_vars

\* the limiter with the requests its callers send
NextCeiling ==
    \/ Tick
    \/ \E c \in Callers : MakeRequest(c)
    \/ \E c \in Callers : WakeUp(c)
    \/ \E c \in Callers : RecordRequest(c)
    \/ \E c \in Callers : HttpAttempt(c)

SpecCeiling == InitRate /\ [][NextCeiling]_vars

\* withRetry on its own
NextRetry ==
    \/ WithRetryCall
    \/ WithRetryAttempt
    \/ WithRetryWake

SpecRetry == InitRate /\ [][NextRetry]_vars

\* withRetry around the Calendar calls
NextCalendar ==
    \/ WithRetryCall
    \/ CalendarAttempt
    \/ WithRetryWake

SpecCalendar == InitRate /\ [][NextCalendar]_vars

\* ensureValidToken within syncSingleIntegration
NextToken ==
    \/ TokenCall
    \/ WithRetryAttempt
    \/ WithRetryWake
    \/ TokenRefreshed
    \/ TokenRefreshFailed
    \/ SyncSingleContinues

SpecToken == InitRate /\ [][NextToken]_vars

Init ==
    /\ EngineIdle
    /\ ServerUp
    /\ CallIdle
    /\ faultsLeft = MaxFaults
    /\ envLeft = MaxEnv
    /\ SchedInit
    /\ initialTimer = "none"
    /\ RateIdle

Next ==
    \/ \E company \in Companies, cal \in Calendars : LocalCreate(company, cal)
    \/ \E a \in ApptIds : LocalCancel(a)
    \/ \E i \in Integrations : RemoteCreate(i)
    \/ \E e \in EventIds : RemoteEdit(e)
    \/ \E e \in EventIds : RemoteCancel(e)
    \/ \E e \in EventIds : RemotePurge(e)
    \/ StartCycle
    \/ EnsureValidToken
    \/ PhaseAList
    \/ PhaseAItem
    \/ PhaseBFetch
    \/ PhaseBItem
    \/ PhaseBCursor
    \/ PhaseCStart
    \/ PhaseCItem

Spec == Init /\ [][Next]_vars

\* the cron trigger keeps firing and every await of a cycle settles: the
\* engine takes its next step whenever it has one
SpecFair == Spec /\ WF_vars(Next)

\* the engine with two connected integrations, one per tenant
InitBatch ==
    /\ appts = <<>>
    /\ events = <<>>
    /\ rseq = 1
    /\ integ = [i \in {1, 2} |-> ConnectedRow(i)]
    /\ epc = "idle"
    /\ cycle = 0
    /\ batch = <<>>
    /\ cur = NoInt
    /\ items = <<>>
    /\ resp = 0
    /\ lastPush = NoPush
    /\ bpass = NoPass
    /\ lastItem = NoItem
    /\ lastProbe = NoProbe
    /\ sweeps = NoSweeps
    /\ round = NoRound
    /\ unapplied = {}
    /\ faultsLeft = MaxFaults
    /\ envLeft = MaxEnv
    /\ CallIdle
    /\ ServerUp
    /\ SchedInit
    /\ initialTimer = "none"
    /\ RateIdle

SpecBatch == InitBatch /\ [][Next]_vars

\* the engine with the token columns of the integration's row followed
NextStored ==
    \/ \E company \in Companies, cal \in Calendars : LocalCreate(company, cal)
    \/ \E a \in ApptIds : LocalCancel(a)
    \/ \E i \in Integrations : RemoteCreate(i)
    \/ \E e \in EventIds : RemoteEdit(e)
    \/ \E e \in EventIds : RemoteCancel(e)
    \/ \E e \in EventIds : RemotePurge(e)
    \/ StartCycle
    \/ EnsureValidTokenStored
    \/ PhaseAList
    \/ PhaseAItem
    \/ PhaseBFetch
    \/ PhaseBItem
    \/ PhaseBCursor
    \/ PhaseCStart
    \/ PhaseCItem

SpecStored == Init /\ [][NextStored]_vars

\* an integration row of tenant 1 for calendar cal
SharedRow(cal) == [ConnectedRow(1) EXCEPT !.calendar_id = cal]

\* the engine with two connected integrations of one tenant, one per
\* calendar: nothing in getActiveGoogleCalendarIntegrations or in the batch
\* loop keeps a tenant to one row
InitShared ==
    /\ appts = <<>>
    /\ events = <<>>
    /\ rseq = 1
    /\ integ = <<SharedRow("primary"), SharedRow("work")>>
    /\ epc = "idle"
    /\ cycle = 0
    /\ batch = <<>>
    /\ cur = NoInt
    /\ items = <<>>
    /\ resp = 0
    /\ lastPush = NoPush
    /\ bpass = NoPass
    /\ lastItem = NoItem
    /\ lastProbe = NoProbe
    /\ sweeps = NoSweeps
    /\ round = NoRound
    /\ unapplied = {}
    /\ faultsLeft = MaxFaults
    /\ envLeft = 1
    /\ CallIdle
    /\ ServerUp
    /\ SchedInit
    /\ initialTimer = "none"
    /\ RateIdle

NextShared ==
    \/ \E cal \in Calendars : LocalCreate(1, cal)
    \/ \E i \in Integrations : RemoteCreate(i)
    \/ StartCycle
    \/ EnsureValidToken
    \/ PhaseAList
    \/ PhaseAItem
    \/ PhaseBFetch
    \/ PhaseBItem
    \/ PhaseBCursor
    \/ PhaseCStart
    \/ PhaseCItem

SpecShared == InitShared /\ [][NextShared]_vars

\* the engine with three integrations of three tenants, the second in any
\* of the conditions the listing may find it in, and a configured batch cap
\* (MAX_COMPANIES_PER_BATCH) below the number of integrations
InitCap ==
    /\ appts = <<>>
    /\ events = <<>>
    /\ rseq = 1
    /\ \E kind \in RowKinds :
          integ = [i \in {1, 2, 3} |->
                      IF i = 2 THEN RowOfKind(i, kind) ELSE ConnectedRow(i)]
    /\ maxBatch \in 1..MaxBatch
    /\ proc = ProcRunning
    /\ epc = "idle"
    /\ cycle = 0
    /\ batch = <<>>
    /\ cur = NoInt
    /\ items = <<>>
    /\ resp = 0
    /\ lastPush = NoPush
    /\ bpass = NoPass
    /\ lastItem = NoItem
    /\ lastProbe = NoProbe
    /\ sweeps = NoSweeps
    /\ round = NoRound
    /\ unapplied = {}
    /\ faultsLeft = MaxFaults
    /\ envLeft = 1
    /\ CallIdle
    /\ SchedInit
    /\ initialTimer = "none"
    /\ RateIdle

NextCap ==
    \/ \E company \in Companies, cal \in Calendars : LocalCreate(company, cal)
    \/ \E i \in Integrations : RemoteCreate(i)
    \/ StartCycle
    \/ EnsureValidToken
    \/ PhaseAList
    \/ PhaseAItem
    \/ PhaseBFetch
    \/ PhaseBItem
    \/ PhaseBCursor
    \/ PhaseCStart
    \/ PhaseCItem

SpecCap == InitCap /\ [][NextCap]_vars

\* the cycle over two integrations in a process that may be signalled, and
\* whose awaited calls may never settle
NextLife ==
    \/ \E company \in Companies : LocalCreate(company, "primary")
    \/ CronStartsCycle
    \/ CronSkips
    \/ CycleStep
    \/ IoHangs
    \/ LifeShutdown
    \/ LifePoll
    \/ ForceExit

InitLife ==
    /\ appts = <<>>
    /\ events = <<>>
    /\ rseq = 1
    /\ integ = [i \in {1, 2} |-> ConnectedRow(i)]
    /\ epc = "idle"
    /\ cycle = 0
    /\ batch = <<>>
    /\ cur = NoInt
    /\ items = <<>>
    /\ resp = 0
    /\ lastPush = NoPush
    /\ bpass = NoPass
    /\ lastItem = NoItem
    /\ lastProbe = NoProbe
    /\ sweeps = NoSweeps
    /\ round = NoRound
    /\ unapplied = {}
    /\ faultsLeft = MaxFaults
    /\ envLeft = 1
    /\ CallIdle
    /\ ServerUp
    /\ SchedInit
    /\ initialTimer = "none"
    /\ RateIdle

SpecLife == InitLife /\ [][NextLife]_vars

\* a settled call lets the cycle go on, and due timers fire
SpecLifeFair ==
    SpecLife /\ WF_vars(CycleStep) /\ WF_vars(LifePoll) /\ WF_vars(ForceExit)

\* ------------------------------------------------------------------------
\* C1: at most one batch cycle runs at a time.  No two executions of
\* syncAllIntegrations overlap, the in-flight flag is set exactly while one
\* runs, and a trigger that arrives while a cycle is in flight starts no
\* cycle and leaves the flag, the run counters and the last-sync time as
\* they were.
\* ------------------------------------------------------------------------
C1_SingleCycle ==
    [][ /\ Cardinality(inflight') <= 1
        /\ isRunning' = (inflight' # {})
        /\ (isRunning /\ calls' = calls + 1) =>
               /\ inflight' = inflight
               /\ isRunning' = isRunning
               /\ syncStats' = syncStats
               /\ lastSyncTime' = lastSyncTime ]_vars

\* a trigger has arrived during a cycle and was skipped while that cycle is
\* still in flight
C1_Witness ==
    /\ lastCall = "skipped"
    /\ isRunning
    /\ Cardinality(inflight) = 1

\* ------------------------------------------------------------------------
\* C10: rate bound.  When makeRequest is called while Capacity timestamps
\* lie inside the trailing window, the call is neither recorded nor issued
\* before oldestTimestamp + window; every sleep of the wait loop lasts at
\* least oldestTimestamp + window - now and at least the floor.
\* ------------------------------------------------------------------------
C10_RateBound ==
    \A c \in Callers :
        /\ (rhist[c].blocked /\ rpc[c] \in {"idle", "granted"}) =>
               now >= rhist[c].deadline
        /\ (rhist[c].blocked /\ rpc[c] = "calling") =>
               rhist[c].recordedAt >= rhist[c].deadline
        /\ rpc[c] = "sleeping" =>
               /\ wakeAt[c] - rhist[c].sleptAt >= rhist[c].sleepNeed
               /\ wakeAt[c] - rhist[c].sleptAt >= FloorTicks
               /\ rhist[c].sleepNeed >= 1

\* a call that found the window full has been recorded after its wait, and
\* the floor, not the window, set the length of one of its sleeps
C10_Witness ==
    \E c \in Callers :
        /\ rhist[c].blocked
        /\ rpc[c] = "calling"
        /\ rhist[c].sleepNeed < FloorTicks

\* ------------------------------------------------------------------------
\* C2: no double-creation.  Across any sequence of batch cycles and any
\* pattern of failures (a create that is retried after a fault, or a
\* failure to store the returned external id), at most one remote event is
\* ever created for a given local appointment.
\* ------------------------------------------------------------------------
EventsCreatedFor(a) == {e \in EventIds : events[e].origin = a}

C2_NoDoubleCreation ==
    \A a \in ApptIds : Cardinality(EventsCreatedFor(a)) <= 1

\* createGoogleEvent has inserted an event for an appointment, the update
\* that stores its id has failed, and the next cycle's Phase A has selected
\* the appointment again
C2_Witness ==
    /\ cycle = 2
    /\ epc = "A_items"
    /\ lastPush = NoPush
    /\ \E a \in ItemIds(items) :
          /\ appts[a].google_event_id = 0
          /\ Cardinality(EventsCreatedFor(a)) = 1

\* ------------------------------------------------------------------------
\* C3: no double-push.  Phase A selects exactly the appointments of the
\* integration's tenant and calendar whose external id is null and whose
\* status is not cancelled; an appointment whose external id is set is never
\* handed to createGoogleEvent, and is in no later Phase A selection.
\* ------------------------------------------------------------------------
C3_Selection ==
    (epc = "A_list" /\ epc' = "A_items") =>
        ItemIds(items') =
            {a \in ApptIds : /\ appts[a].company_id = cur.company_id
                             /\ appts[a].google_calendar_id = cur.calendar_id
                             /\ appts[a].google_event_id = 0
                             /\ appts[a].status # "cancelled"}

C3_Pending ==
    epc = "A_items" => \A a \in ItemIds(items) : appts[a].google_event_id = 0

C3_Pushed == lastPush.appt # 0 => lastPush.storedExt = 0

C3_NoDoublePush == [][C3_Selection]_vars /\ [](C3_Pending /\ C3_Pushed)

\* a later cycle's Phase A has made its selection, and an appointment that
\* an earlier run pushed and linked to its event is not in it
C3_Witness ==
    /\ cycle = 2
    /\ epc = "A_items"
    /\ lastPush = NoPush
    /\ \E a \in ApptIds :
          /\ appts[a].google_event_id # 0
          /\ appts[a].status = "scheduled"
          /\ appts[a].company_id = cur.company_id
          /\ appts[a].google_calendar_id = cur.calendar_id
          /\ EventsCreatedFor(a) # {}
          /\ a \notin ItemIds(items)

\* ------------------------------------------------------------------------
\* C4: no remote change is lost.  If a Phase B pass delivers a remote event
\* and the upsert or cancellation for it fails, some later pass applies the
\* change: the store eventually shows the state the remote API delivered.
\* Stated for a failure after which cycles keep running, nothing else fails
\* and no user touches either side.
\* ------------------------------------------------------------------------
C4_NoChangeLost ==
    \A e \in 1..MaxEvents :
        (/\ e \in unapplied
         /\ faultsLeft = 0
         /\ envLeft = 0) ~> (e \notin unapplied)

\* the upsert for a delivered event failed, the cursor stored by that pass
\* already covers the event's change, and a later cycle has run to its end
\* without the store showing the event
C4_Witness ==
    /\ cycle = 2
    /\ epc = "idle"
    /\ \E e \in unapplied :
          /\ events[e].status = "confirmed"
          /\ integ[events[e].cal].sync_token >= events[e].seq
          /\ RowsByEvent(appts, integ[events[e].cal].company_id, e) = {}

\* ------------------------------------------------------------------------
\* C5: orphan-sweep safety.  Phase C cancels a record only when its probe
\* answers 404 or 410; a probe ending in any other error (5xx, 429, network
\* fault, 401/403, after the retries) leaves the record as it was and the
\* loop moves on to the next item.
\* ------------------------------------------------------------------------
GoneCodes == {404, 410}

C5_SweepStep ==
    (epc = "C_items" /\ items' # items) =>
        LET a == Head(items).id
        IN /\ items' = Tail(items)
           /\ Len(appts') = Len(appts)
           /\ \A b \in ApptIds \ {a} : appts'[b] = appts[b]
           /\ (lastProbe'.code \notin GoneCodes) => appts'[a] = appts[a]
           /\ (appts'[a] # appts[a]) =>
                  /\ lastProbe'.code \in GoneCodes
                  /\ appts'[a] = [appts[a] EXCEPT !.status = "cancelled"]

C5_ProbeRecord == lastProbe.cancelled => lastProbe.code \in GoneCodes

C5_SweepSafety == [][C5_SweepStep]_vars /\ []C5_ProbeRecord

\* the probe of a record whose remote event is gone ended in an error, and
\* the record is still scheduled
C5_Witness ==
    /\ lastProbe.appt # 0
    /\ lastProbe.code \in ErrorCodes
    /\ appts[lastProbe.appt].status = "scheduled"
    /\ appts[lastProbe.appt].google_event_id \in EventIds
    /\ events[appts[lastProbe.appt].google_event_id].status = "gone"

\* ------------------------------------------------------------------------
\* C6: the sweep cancels orphans idempotently.  When Phase C runs and the
\* probe for a listed record answers 404/410, the record becomes cancelled
\* (the store applying the update); a sweep run after that neither lists
\* nor probes the record.
\* ------------------------------------------------------------------------
C6_CancelStep ==
    (epc = "C_items" /\ items' # items /\ lastProbe'.cancelled) =>
        /\ lastProbe'.appt = Head(items).id
        /\ lastProbe'.code \in GoneCodes
        /\ appts'[Head(items).id].status = "cancelled"

C6_RerunStep ==
    (epc = "C_start" /\ epc' # "C_start") =>
        /\ ItemIds(items') \cap sweeps.cancelled = {}
        /\ \A a \in ItemIds(items') : appts[a].status # "cancelled"

C6_Rerun ==
    /\ epc = "C_items" => ItemIds(items) \cap sweeps.cancelled = {}
    /\ \A a \in sweeps.cancelled :
          /\ appts[a].status = "cancelled"
          /\ a \notin ItemIds(GetSyncedAppointments(appts[a].company_id))
    /\ lastProbe.cancelled => lastProbe.appt \in sweeps.cancelled

C6_SweepIdempotent == [][C6_CancelStep /\ C6_RerunStep]_vars /\ []C6_Rerun

\* a sweep cancelled a record on 404/410, and a later sweep has run without
\* listing it
C6_Witness ==
    /\ sweeps.runs >= 2
    /\ \E a \in sweeps.cancelled :
          /\ a \notin sweeps.listed
          /\ appts[a].google_event_id # 0
          /\ appts[a].status = "cancelled"

\* ------------------------------------------------------------------------
\* C7: Phase B idempotence.  Running Phase B twice against the same remote
\* snapshot yields no duplicate rows (the number of rows per (tenant,
\* external id) is the same after the second pass as after the first) and
\* the second pass changes no field of any row.  Checked for the full
\* listing and for the listing since the stored cursor, from every
\* reachable store, the store answering every call of both passes.
\* ------------------------------------------------------------------------
Snapshots(i) == {ListEntries(i, 0), ListEntries(i, integ[i].sync_token)}

C7_PhaseBIdempotent ==
    \A i \in Integrations : \A entries \in Snapshots(i) :
        LET company == integ[i].company_id
            first == PhaseBPass(appts, company, entries)
            second == PhaseBPass(first, company, entries)
        IN /\ Len(second) = Len(first)
           /\ \A k \in 1..Len(entries) :
                 Cardinality(RowsByEvent(second, company, entries[k].id))
                     = Cardinality(RowsByEvent(first, company, entries[k].id))
           /\ second = first

\* a pass without failures has just processed a snapshot holding an active
\* and a cancelled entry, created a row from it, and running the pass again
\* over that snapshot would leave the store as it is
C7_Witness ==
    /\ bpass.done
    /\ bpass.itemFails = 0
    /\ \E k \in 1..Len(bpass.entries) : bpass.entries[k].status = "confirmed"
    /\ \E k \in 1..Len(bpass.entries) :
          /\ bpass.entries[k].status = "cancelled"
          /\ RowsByEvent(appts, cur.company_id, bpass.entries[k].id) # {}
    /\ bpass.entries \in Snapshots(bpass.int)
    /\ PhaseBPass(appts, cur.company_id, bpass.entries) = appts

\* ------------------------------------------------------------------------
\* C8: cursor replacement.  After a Phase B pass whose list call succeeded
\* and whose response carries a cursor, exactly one cursor write has been
\* issued, with the response's cursor, and (the store applying it) the
\* stored cursor equals the response's cursor, however many item upserts or
\* cancellations failed during the pass.  Nothing else writes the cursor.
\* ------------------------------------------------------------------------
C8_PassEnd ==
    (bpass.done /\ bpass.fetched /\ resp # 0) =>
        /\ bpass.cursorWrites = 1
        /\ bpass.cursorValue = resp
        /\ bpass.cursorStored => integ[bpass.int].sync_token = resp

C8_OnlyWriter ==
    (\E i \in Integrations : integ'[i].sync_token # integ[i].sync_token) =>
        /\ epc = "B_cursor"
        /\ resp # 0
        /\ integ' = [integ EXCEPT ![cur.id].sync_token = resp]

C8_CursorReplacement == [][C8_OnlyWriter]_vars /\ []C8_PassEnd

\* a pass in which an item failed has ended, and the stored cursor is the
\* response's, not the one the pass started from
C8_Witness ==
    /\ bpass.done
    /\ bpass.fetched
    /\ bpass.itemFails > 0
    /\ resp # 0
    /\ resp # cur.sync_token
    /\ integ[bpass.int].sync_token = resp

\* ------------------------------------------------------------------------
\* C9: pulled cancellations.  For a remote entry with status cancelled, a
\* matching non-cancelled row (by tenant and external id) is cancelled; with
\* no match nothing is created or written; an active entry with no match
\* creates exactly one new row.
\* ------------------------------------------------------------------------
C9_Matched ==
    (Head(items).status = "cancelled" /\ lastItem'.match = "scheduled" /\ lastItem'.ok) =>
        /\ lastItem'.op = "cancel"
        /\ Len(appts') = Len(appts)
        /\ \A a \in ApptIds :
              appts'[a] = IF a \in RowsByEvent(appts, cur.company_id, Head(items).id)
                          THEN [appts[a] EXCEPT !.status = "cancelled"]
                          ELSE appts[a]

C9_Unmatched ==
    (Head(items).status = "cancelled" /\ lastItem'.match = "none") =>
        /\ lastItem'.op = "none"
        /\ appts' = appts

C9_ActiveNew ==
    (Head(items).status = "confirmed" /\ lastItem'.match = "none" /\ lastItem'.ok) =>
        /\ Len(appts') = Len(appts) + 1
        /\ SubSeq(appts', 1, Len(appts)) = appts
        /\ appts'[Len(appts')].google_event_id = Head(items).id
        /\ appts'[Len(appts')].company_id = cur.company_id
        /\ appts'[Len(appts')].status = "scheduled"

\* ... and when the match is already cancelled nothing is written
C9_AlreadyCancelledNoWrite ==
    (Head(items).status = "cancelled" /\ lastItem'.match = "cancelled") =>
        /\ lastItem'.op = "none"
        /\ appts' = appts

\* ... and when the match is already cancelled nothing is created and the
\* row stays cancelled, but cancelAppointment is issued for it again (an
\* update of status and updated_at)
C9_AlreadyCancelledRewritten ==
    (Head(items).status = "cancelled" /\ lastItem'.match = "cancelled") =>
        /\ lastItem'.ok => lastItem'.op = "cancel"
        /\ appts' = appts

\* C9 as the specification states it
C9_PulledCancellations ==
    [][(epc = "B_items" /\ items' # items) =>
          /\ C9_Matched
          /\ C9_Unmatched
          /\ C9_ActiveNew
          /\ C9_AlreadyCancelledNoWrite]_vars

\* C9 as the code has it: the already-cancelled match is cancelled again
C9_PulledCancellationsRewrite ==
    [][(epc = "B_items" /\ items' # items) =>
          /\ C9_Matched
          /\ C9_Unmatched
          /\ C9_ActiveNew
          /\ C9_AlreadyCancelledRewritten]_vars

\* a cancelled entry has been processed whose row was cancelled already, and
\* the update was issued for it
C9_Witness ==
    /\ lastItem.kind = "cancelled"
    /\ lastItem.match = "cancelled"
    /\ lastItem.op = "cancel"
    /\ lastItem.ok
    /\ \E a \in RowsByEvent(appts, cur.company_id, lastItem.event) :
          appts[a].status = "cancelled"


\* ------------------------------------------------------------------------
\* C11: global ceiling.  Every HTTP request sent to the remote calendar
\* API, each retry of withRetry included, is counted in the limiter's
\* window: while the limiter's window holds at most Capacity timestamps, no
\* more than Capacity requests have been sent within the trailing window.
\* ------------------------------------------------------------------------
C11_GlobalCeiling ==
    Len(InWindow(requests, now)) <= Capacity =>
        Len(InWindow(sent, now)) <= Capacity

\* one caller holds one recorded slot and is about to send its third request
C11_Witness ==
    \E c \in Callers :
        /\ rpc[c] = "calling"
        /\ tries[c] = 2
        /\ Len(InWindow(requests, now)) = 1

\* ------------------------------------------------------------------------
\* C12: for any interleaving of concurrent makeRequest callers, the
\* capacity check and the recording act as one step: the timestamps
\* recorded inside the trailing window never number more than Capacity.
\* ------------------------------------------------------------------------
C12_WindowWithinCapacity == Len(InWindow(requests, now)) <= Capacity

\* two callers have passed the capacity check and neither has recorded yet,
\* with room for one of them only
C12_Witness ==
    /\ \A c \in Callers : rpc[c] = "granted"
    /\ Len(InWindow(requests, now)) = Capacity - 1


\* ------------------------------------------------------------------------
\* C13: terminal errors are not retried.  When fn fails with an error whose
\* message carries 401, 403, 404, 410, invalid_grant or token_revoked,
\* withRetry makes no further attempt and sleeps no backoff after it, and
\* throws that error: a call whose first attempt fails so has attempted fn
\* exactly once.
\* ------------------------------------------------------------------------
C13_TerminalNotRetried ==
    LET e == retry.errors
    IN /\ \A k \in 1..(Len(e) - 1) : ~IsPersistentError(e[k])
       /\ (e # <<>> /\ IsPersistentError(e[Len(e)])) =>
              /\ retry.pc = "thrown"
              /\ retry.lastError = e[Len(e)]
              /\ retry.attempts = Len(e)
              /\ Len(retry.sleeps) = Len(e) - 1

\* a call allowed three attempts has thrown a terminal error after one
C13_Witness ==
    /\ retry.pc = "thrown"
    /\ retry.n = 3
    /\ retry.attempts = 1
    /\ retry.sleeps = <<>>
    /\ IsPersistentError(retry.lastError)

\* ------------------------------------------------------------------------
\* C14: transient errors are retried with linear backoff.  With
\* maxRetries = n >= 1 and a transient failure at every attempt, fn is
\* attempted exactly n times, the sleep before retry k lasts retryDelay * k
\* (k = 1..n-1), nothing is slept after the last attempt and the last
\* error is thrown; an attempt that succeeds returns at once, and no
\* further attempt of that call follows.
\* ------------------------------------------------------------------------
C14_State ==
    LET e == retry.errors
    IN /\ \A k \in 1..Len(retry.sleeps) : retry.sleeps[k] = retryDelay * k
       /\ (/\ retry.pc = "thrown"
           /\ retry.n >= 1
           /\ \A k \in 1..Len(e) : ~IsPersistentError(e[k])) =>
              /\ retry.attempts = retry.n
              /\ Len(e) = retry.n
              /\ Len(retry.sleeps) = retry.n - 1
              /\ retry.lastError = e[retry.n]
       /\ retry.pc = "returned" =>
              /\ retry.attempts = Len(e) + 1
              /\ Len(retry.sleeps) = Len(e)

C14_Step == (retry.pc = "returned" /\ retry' # retry) => retry'.attempts = 0

C14_LinearBackoff == []C14_State /\ [][C14_Step]_vars

\* three transient failures in a row: three attempts, sleeps of 1000 and
\* 2000 ms, then the throw
C14_Witness ==
    /\ retry.pc = "thrown"
    /\ retry.n = 3
    /\ retry.attempts = 3
    /\ retry.sleeps = <<retryDelay, 2 * retryDelay>>
    /\ ~IsPersistentError(retry.lastError)


\* ------------------------------------------------------------------------
\* C15: token refresh boundary.  For an integration holding an access and
\* a refresh token, ensureValidToken calls the token endpoint exactly when
\* expiresAt - now <= 5 minutes, the boundary included: with 4 minutes left
\* it refreshes; with 6 minutes left it returns the stored access token
\* with no call of the token endpoint and no write to the store.
\* ------------------------------------------------------------------------
C15_RefreshBoundary ==
    LET g == tok.integration
        done == tok.pc \in {"returned", "thrown", "phases", "caught"}
    IN /\ (retry.attempts > 0 \/ tok.writes > 0) => g.left <= FiveMinutes
       /\ (done /\ g.access_token # "none" /\ g.refresh_token # "none") =>
              /\ g.left <= FiveMinutes => (retry.op = "refresh" /\ retry.attempts >= 1)
              /\ g.left > FiveMinutes =>
                     /\ retry = NoRetry
                     /\ tok.writes = 0
                     /\ tok.row = g
                     /\ tok.pc \in {"returned", "phases"}
                     /\ tok.result = g.access_token

\* a token with exactly five minutes left has been refreshed
C15_Witness ==
    /\ tok.pc = "returned"
    /\ tok.integration.left = FiveMinutes
    /\ retry.attempts = 1
    /\ tok.result = "A1"

\* ------------------------------------------------------------------------
\* C16: atomic token persistence.  A refresh issues one store update, and
\* once the store has applied it the row holds the new access token, the
\* new expiry and the refresh token (the rotated one when the response
\* carries one, otherwise the existing one); the row never holds only some
\* of the three, and a refresh never leaves the stored refresh token null.
\* ------------------------------------------------------------------------
C16_AtomicTokenPersistence ==
    LET g == tok.integration
        written == [access_token |-> "A1",
                    refresh_token |-> IF tok.rotated # "none" THEN tok.rotated
                                      ELSE g.refresh_token,
                    left |-> ExpiresIn]
    IN /\ tok.writes <= 1
       /\ tok.row \in {g, written}
       /\ (tok.writes = 1 /\ tok.applied) => tok.row = written
       /\ tok.writes = 1 => tok.row.refresh_token # "none"

\* a refresh whose response carried no refresh token has been stored: new
\* access token and expiry, the refresh token as it was
C16_Witness ==
    /\ tok.writes = 1
    /\ tok.applied
    /\ tok.rotated = "none"
    /\ tok.row = [access_token |-> "A1", refresh_token |-> "R0", left |-> ExpiresIn]

\* ------------------------------------------------------------------------
\* C17: auth failure is terminal for the integration's run.  When a
\* refresh is needed and no refresh token is present, or the token endpoint
\* rejects the refresh (invalid_grant), ensureValidToken fails without
\* retrying the rejected refresh, the failure reaches the batch loop and
\* the phases do not run for the integration.
\* ------------------------------------------------------------------------
C17_AuthFailureTerminal ==
    LET g == tok.integration
        e == retry.errors
        rejected == {RefreshFailedMessage(b) : b \in Rejections}
    IN /\ retry.op = "refresh" => \A k \in 1..(Len(e) - 1) : e[k] \notin rejected
       /\ tok.error # <<>> => tok.pc \in {"thrown", "caught"}
       /\ (/\ tok.pc # "idle"
           /\ g.access_token # "none"
           /\ NeedsRefresh(g.left)
           /\ g.refresh_token = "none") =>
              /\ tok.pc \in {"thrown", "caught"}
              /\ retry.attempts = 0

\* the token endpoint has rejected the refresh and the same refresh has
\* been sent again
C17_Witness ==
    /\ retry.op = "refresh"
    /\ retry.attempts >= 2
    /\ retry.errors[1] \in {RefreshFailedMessage(b) : b \in Rejections}


\* ------------------------------------------------------------------------
\* C18: terminal integration-level errors retire the integration.  When
\* the token refresh is rejected (invalid_grant) or Phase B's list call
\* fails with 401, 403, 404 or 410, the integration is marked
\* status = error, and an integration marked so is in no later cycle's
\* batch.
\* ------------------------------------------------------------------------
C18_TerminalFailure ==
    \/ IsPersistentCode(round.lastFail.code)
    \/ round.lastFail.auth \in {"invalid_grant", "invalid_grant_described"}

C18_TerminalRetires ==
    /\ C18_TerminalFailure => integ[round.lastFail.int].status = "error"
    /\ \A i \in Integrations :
          (integ[i].status = "error" /\ i \in round.batch) => i \in round.failed

\* the token endpoint has rejected the refresh with invalid_grant and a
\* description, and the integration is still connected
C18_Witness ==
    /\ round.lastFail.auth = "invalid_grant_described"
    /\ integ[round.lastFail.int].status = "connected"

\* ------------------------------------------------------------------------
\* C19: non-terminal integration-level failures.  A transient failure of
\* the token refresh or of Phase B's list call that outlasts the retries
\* (5xx, 429, network), or a missing access or refresh token, ends the
\* integration's processing for the current cycle; what it does to the
\* integration's status is stated twice below.
\* ------------------------------------------------------------------------
C19_NonTerminalFailure ==
    \/ round.lastFail.code \in {0, 429, 500}
    \/ round.lastFail.auth \in {"timeout", "no_refresh_token", "no_access_token"}

C19_Stopped ==
    C19_NonTerminalFailure =>
        /\ cur.id # round.lastFail.int
        /\ round.lastFail.int \notin ItemIds(batch)

C20_FailureIsolation ==
    /\ round.failed \subseteq round.entered \cup {cur.id}
    /\ epc # "idle" =>
          round.batch = round.entered \cup {cur.id} \cup ItemIds(batch)
    /\ (epc = "idle" /\ cycle > 0) => round.entered = round.batch

\* the first integration of a batch of two has failed and the second has
\* been processed to the end of the same cycle
C20_Witness ==
    /\ epc = "idle"
    /\ round.batch = {1, 2}
    /\ round.failed = {1}
    /\ round.entered = {1, 2}

\* ------------------------------------------------------------------------
\* C21: the phases of one integration run in strict order.  Within
\* syncSingleIntegration the token check comes first, then Phase A, then
\* Phase B, then Phase C, each awaited before the next: Phase B's list call
\* is made only when Phase A's loop has no appointment left, and Phase C
\* starts only when Phase B's pass over the same integration is done.
\* ------------------------------------------------------------------------
PhasesA == {"A_list", "A_items"}
PhasesB == {"B_fetch", "B_items", "B_cursor"}
PhasesC == {"C_start", "C_items"}

\* the positions a step may come from to reach position p
C21_Before(p) ==
    IF p = "A_list" THEN {"token", "A_list"}
    ELSE IF p = "A_items" THEN PhasesA
    ELSE IF p = "B_fetch" THEN PhasesA \cup {"B_fetch"}
    ELSE IF p = "B_items" THEN {"B_fetch", "B_items"}
    ELSE IF p = "B_cursor" THEN PhasesB
    ELSE IF p = "C_start" THEN {"B_cursor", "C_start"}
    ELSE IF p = "C_items" THEN PhasesC
    ELSE {"idle", "token"} \cup PhasesA \cup PhasesB \cup PhasesC

C21_Step ==
    /\ epc \in C21_Before(epc')
    /\ epc' \in PhasesA \cup PhasesB \cup PhasesC => cur' = cur

C21_State ==
    /\ epc \in PhasesA \cup PhasesB \cup PhasesC => cur.id \in round.entered
    /\ epc = "B_fetch" => items = <<>>
    /\ epc = "C_start" => bpass.done /\ bpass.int = cur.id

C21_PhaseOrder == [][C21_Step]_vars /\ []C21_State

\* the sweep is probing in the cycle in which the same integration pushed an
\* appointment and completed a pull
C21_Witness ==
    /\ epc = "C_items"
    /\ cycle = 1
    /\ lastProbe.appt # 0
    /\ \E e \in EventIds : events[e].origin # 0 /\ events[e].cal = cur.id
\* ------------------------------------------------------------------------
\* C22: continuation between the phases.  When Phase A's selection query
\* fails, Phase B still runs for the integration.  When Phase B's list call
\* fails (after its retries), the integration is left for the cycle: the
\* failure is counted against it, no Phase C is started for it, and the
\* batch moves to the next integration or ends.
\* ------------------------------------------------------------------------
C22_SelectionFailed == epc = "A_list" /\ faultsLeft' < faultsLeft
C22_ListFailed == epc = "B_fetch" /\ faultsLeft' < faultsLeft

C22_AfterSelectionFailure == C22_SelectionFailed => epc' = "B_fetch" /\ cur' = cur

C22_AfterListFailure ==
    C22_ListFailed => /\ epc' \in {"idle", "token"}
                      /\ cur' # cur
                      /\ cur.id \in round'.failed

C22_NoSweepAfterFailure == epc \in PhasesC => cur.id \notin round.failed

C22_Continuation ==
    /\ [][C22_AfterSelectionFailure /\ C22_AfterListFailure]_vars
    /\ []C22_NoSweepAfterFailure

\* C22 as stated: after a failed list call Phase C is still attempted for
\* the integration in the same cycle
C22_SweepAfterListFailure ==
    [][C22_ListFailed => epc' = "C_start" /\ cur' = cur]_vars

\* a list call that was rate limited to the end: the integration was left
\* before any pass or sweep, in its first cycle
C22_Witness ==
    /\ round.lastFail.code = 429
    /\ round.lastFail.int = bpass.int
    /\ ~bpass.fetched
    /\ sweeps.runs = 0
    /\ epc = "idle"
\* ------------------------------------------------------------------------
\* C23: a failure on one item never aborts the loop of its phase.  Whatever
\* a turn of Phase A's, Phase B's or Phase C's loop met (a failed create or
\* a failed write of the external id, a failed lookup, upsert or cancel, a
\* failed probe or cancel), the step consumes exactly that item, and the loop
\* is over only when no item is left: every remaining item gets its turn in
\* the same pass.
\* ------------------------------------------------------------------------
LoopPositions == {"A_items", "B_items", "C_items"}

C23_Turn == epc \in LoopPositions /\ items' # items

C23_TurnStep ==
    C23_Turn => /\ items' = Tail(items)
                /\ items' # <<>> => epc' = epc /\ cur' = cur

C23_InLoop == epc \in LoopPositions => items # <<>>

C23_ItemFailuresSwallowed == [][C23_TurnStep]_vars /\ []C23_InLoop

\* a turn of Phase A's loop failed (nothing was created) and the loop is
\* still on, with an appointment left to push
C23_Witness ==
    /\ epc = "A_items"
    /\ lastPush.appt # 0
    /\ lastPush.created = 0
    /\ items # <<>>
    /\ faultsLeft < MaxFaults
\* ------------------------------------------------------------------------
\* C30: external ids are unique among live appointments.  Within one tenant
\* a non-null google_event_id is carried by at most one appointment that is
\* not cancelled, whatever the pushes of Phase A and the upserts of Phase B
\* did, with or without failures.
\* ------------------------------------------------------------------------
LiveRowsOf(company, ext) ==
    {a \in RowsByEvent(appts, company, ext) : appts[a].status # "cancelled"}

C30_ExternalIdUnique ==
    \A a \in ApptIds :
        appts[a].google_event_id # 0 =>
            Cardinality(LiveRowsOf(appts[a].company_id, appts[a].google_event_id)) <= 1

\* Phase B has just upserted an entry whose event a live appointment of the
\* tenant already carried; that appointment is still the only one
C30_Witness ==
    /\ lastItem.op = "upsert"
    /\ lastItem.ok
    /\ lastItem.match = "scheduled"
    /\ Cardinality(LiveRowsOf(cur.company_id, lastItem.event)) = 1
\* ------------------------------------------------------------------------
\* C24: the counters of a batch cycle.  The number of integrations processed
\* in a cycle never exceeds the batch cap, and when the cycle has ended it
\* equals the successes plus the failures: every processed integration was
\* counted as exactly one of the two.
\* ------------------------------------------------------------------------
C24_InTurn == IF epc \in PhasesA \cup PhasesB \cup PhasesC THEN 1 ELSE 0

C24_BatchAccounting ==
    /\ round.processedCount <= maxBatch
    /\ Cardinality(round.entered) <= maxBatch
    /\ round.processedCount = round.successCount + round.errorCount + C24_InTurn
    /\ epc = "idle" =>
          /\ round.processedCount = round.successCount + round.errorCount
          /\ round.succeeded \cap round.failed = {}
          /\ round.succeeded \cup round.failed = round.entered
          /\ Cardinality(round.succeeded) = round.successCount
          /\ Cardinality(round.failed) = round.errorCount
          /\ Cardinality(round.entered) = round.processedCount

\* a cycle over more eligible integrations than the cap allows has ended:
\* two were processed, one counted as a success and one as a failure
C24_Witness ==
    /\ epc = "idle"
    /\ maxBatch = 2
    /\ Cardinality({i \in Integrations : integ[i].status = "connected"}) = 3
    /\ round.processedCount = 2
    /\ round.successCount = 1
    /\ round.errorCount = 1

\* ------------------------------------------------------------------------
\* C25: only eligible integrations are run.  The batch of a cycle holds only
\* integrations that were enabled, connected, sync-enabled and holding an
\* access token when the cycle listed them, and the engine works only on
\* members of the batch: an integration whose status was error or disabled
\* at the listing gets no token check, no remote call and no record write in
\* that cycle.
\* ------------------------------------------------------------------------
C25_Eligible(i) ==
    /\ integ[i].is_active
    /\ integ[i].status = "connected"
    /\ integ[i].sync_enabled
    /\ integ[i].access_token # "null"

C25_Listing ==
    (epc = "idle" /\ round' # round) => \A i \in round'.batch : C25_Eligible(i)

C25_Untouched(i) ==
    /\ integ'[i] = integ[i]
    /\ \A a \in 1..Len(appts') :
          appts'[a].company_id = integ[i].company_id =>
              a \in ApptIds /\ appts'[a] = appts[a]
    /\ \A e \in 1..Len(events') :
          events'[e].cal = i => e \in EventIds /\ events'[e] = events[e]

C25_EngineStep ==
    epc' # epc \/ items' # items \/ round' # round \/ faultsLeft' # faultsLeft

C25_OnlyBatchMembers ==
    C25_EngineStep => \A i \in Integrations \ round'.batch : C25_Untouched(i)

C25_Working ==
    /\ cur.id # 0 => cur.id \in round.batch
    /\ round.entered \subseteq round.batch
    /\ ItemIds(batch) \subseteq round.batch

C25_Eligibility == [][C25_Listing /\ C25_OnlyBatchMembers]_vars /\ []C25_Working

\* the first cycle has ended: it ran the two connected integrations and left
\* out the one whose status was error when the cycle listed them
C25_Witness ==
    /\ epc = "idle"
    /\ cycle = 1
    /\ integ[2].status \in {"error", "disabled"}
    /\ round.batch = {1, 3}
    /\ round.entered = {1, 3}
\* ------------------------------------------------------------------------
\* C28: shutdown always terminates.  A signal that finds no cycle in flight
\* makes the process exit at once (code 0); with a cycle in flight the
\* process exits (code 0) at the first poll that finds the flag cleared; the
\* forced exit (code 1) comes only when the hard timeout has run out, and it
\* comes even if the cycle never ends: every signalled process exits.
\* ------------------------------------------------------------------------
C28_Signal == ~proc.signalled /\ proc'.signalled

C28_ImmediateExit ==
    (C28_Signal /\ ~isRunning) => proc'.state = "exited" /\ proc'.exitCode = 0

C28_Waits ==
    (C28_Signal /\ isRunning) =>
        proc'.state = "running" /\ proc'.waiting /\ proc'.left = ForceTicks

C28_ExitOnceCycleEnded ==
    (proc.waiting /\ ~isRunning /\ proc' # proc) => proc'.state = "exited"

C28_ForcedOnlyAtTimeout ==
    (proc.state = "exited" /\ proc.signalled /\ proc.exitCode = 1) => proc.left = 0

C28_GracefulOnlyWhenEnded ==
    (proc.state = "running" /\ proc'.state = "exited" /\ proc'.exitCode = 0)
        => ~isRunning

C28_ShutdownTerminates ==
    /\ [][C28_ImmediateExit /\ C28_Waits /\ C28_ExitOnceCycleEnded
            /\ C28_GracefulOnlyWhenEnded]_vars
    /\ []C28_ForcedOnlyAtTimeout
    /\ (proc.signalled ~> proc.state = "exited")

\* the forced exit took a process whose cycle was still in flight
C28_Witness ==
    /\ proc.state = "exited"
    /\ proc.signalled
    /\ proc.exitCode = 1
    /\ isRunning
    /\ inflight # {}

\* ------------------------------------------------------------------------
\* C29: the only fatal error is the failed connectivity check at start.  A
\* process that exited without a shutdown signal exited with code 1 before
\* any trigger had fired; the end of a cycle, by a rejection as by a
\* return, leaves the process running and clears the in-flight flag, so
\* that the next trigger starts a cycle.
\* ------------------------------------------------------------------------
C29_FatalOnlyAtStart ==
    (proc.state = "exited" /\ ~proc.signalled) =>
        /\ proc.exitCode = 1
        /\ calls = 0
        /\ syncStats.totalRuns = 0
        /\ ~isRunning

C29_CycleEnds == inflight' # inflight /\ inflight' \subseteq inflight

C29_CycleEndStep ==
    C29_CycleEnds => /\ proc' = proc
                     /\ proc.state = "running"
                     /\ isRunning' = FALSE
                     /\ syncStats'.totalRuns = syncStats.totalRuns + 1

C29_TriggerPasses == (proc.state = "running" /\ inflight = {}) => ~isRunning

C29_OnlyStartIsFatal ==
    /\ []C29_FatalOnlyAtStart
    /\ []C29_TriggerPasses
    /\ [][C29_CycleEndStep]_vars

\* a cycle failed, and a later trigger has started the cycle now in flight
C29_Witness ==
    /\ proc.state = "running"
    /\ ~proc.signalled
    /\ syncStats.failedRuns >= 1
    /\ lastCall = "started"
    /\ inflight # {}
\* ------------------------------------------------------------------------
\* C26: no operation blocks indefinitely.  Every batch cycle that was
\* started eventually completes and clears the in-flight flag (or the
\* process has exited), so that triggers are not skipped forever.
\* ------------------------------------------------------------------------
C26_CycleCompletes ==
    (InFlight /\ proc.state = "running") ~> (~InFlight \/ proc.state = "exited")

\* a call of the cycle never settled: the cycle is in flight for good, and
\* the cron task has fired into it
C26_Witness ==
    /\ proc.state = "running"
    /\ proc.hung
    /\ InFlight
    /\ proc.beat = 1
    /\ ~proc.signalled

\* ------------------------------------------------------------------------
\* C27: what a shutdown signal does to a cycle in flight.  The signal stops
\* the cron task, so no cycle is started by it afterwards, and leaves the
\* loop alone: while the process is up the cycle always has its next step,
\* and the process exits with code 0 only when the cycle has ended, every
\* integration of its batch having had its turn.
\* ------------------------------------------------------------------------
C27_NoNewCycle == (proc.signalled /\ epc = "idle") => epc' = "idle"

C27_LoopNotHalted ==
    (proc.state = "running" /\ ~proc.hung /\ InFlight) => ENABLED CycleStep

C27_GracefulAfterWholeCycle ==
    (proc.state = "exited" /\ proc.exitCode = 0) =>
        /\ epc = "idle"
        /\ proc.at > 0 => round.entered = round.batch

C27_CycleRunsOn ==
    /\ [][C27_NoNewCycle]_vars
    /\ []C27_LoopNotHalted
    /\ []C27_GracefulAfterWholeCycle

\* C27 as stated: after the signal no further integration and no further
\* phase is started
C27_PhaseOf(p) ==
    IF p \in PhasesA THEN "A"
    ELSE IF p \in PhasesB THEN "B"
    ELSE IF p \in PhasesC THEN "C"
    ELSE p

C27_HaltsAfterPhase ==
    [][(proc.signalled /\ proc.state = "running") =>
          /\ cur' = cur \/ cur'.id = 0
          /\ C27_PhaseOf(epc') = C27_PhaseOf(epc) \/ epc' = "idle"]_vars

\* the signal came while integration 1 was in process; the process is still
\* up, and integration 2 has been started and is in its Phase B
C27_Witness ==
    /\ proc.signalled
    /\ proc.state = "running"
    /\ proc.at = 1
    /\ cur.id = 2
    /\ epc \in PhasesB
\* ------------------------------------------------------------------------
\* C31: the upsert preserves identity.  When Phase B upserts an active
\* remote event for which the tenant already has an appointment with that
\* external id, the appointment keeps its id, its owner and its creation
\* timestamp, and takes the event's values in its mutable fields.
\* ------------------------------------------------------------------------
C31_Matched == RowsByEvent(appts, cur.company_id, Head(items).id)

\* a turn of Phase B's loop whose upsert the store applied to a matched row
C31_Upserted ==
    /\ epc = "B_items"
    /\ items' # items
    /\ Head(items).status # "cancelled"
    /\ C31_Matched # {}
    /\ appts' # appts

C31_UpsertPreservesIdentity ==
    [][C31_Upserted =>
          /\ Len(appts') = Len(appts)
          /\ \A a \in C31_Matched :
                /\ appts'[a].created_by = appts[a].created_by
                /\ appts'[a].created_at = appts[a].created_at
                /\ appts'[a].data = Head(items).data]_vars

\* an appointment booked by a user and pushed by Phase A has been upserted
\* from its own event after a failed lookup: it now belongs to the admin
C31_Witness ==
    /\ lastItem.op = "upsert"
    /\ ~lastItem.ok
    /\ \E a \in ApptIds :
          /\ appts[a].google_event_id = lastItem.event
          /\ events[lastItem.event].origin = a
          /\ appts[a].created_by = Admin(appts[a].company_id)
\* ---------------------------------------------------------------------------
\* C32: the query of the pull is built one of two ways, never mixed: for an
\* integration with a stored cursor it carries the cursor and neither time
\* bounds nor an ordering; for one without, it carries the time bounds (30
\* days back, 365 days ahead of the clock) and the start-time ordering, and
\* no cursor.
C32_TimeKeys == {"timeMin", "timeMax", "orderBy"}
C32_Built == epc = "B_fetch" /\ epc' # "B_fetch"
C32_QueryExclusive ==
    [][C32_Built =>
          LET p == bpass'.params
          IN IF cur.sync_token # 0
             THEN /\ "syncToken" \in DOMAIN p
                  /\ p.syncToken = cur.sync_token
                  /\ C32_TimeKeys \cap DOMAIN p = {}
             ELSE /\ "syncToken" \notin DOMAIN p
                  /\ C32_TimeKeys \subseteq DOMAIN p
                  /\ p.timeMin = now - 30
                  /\ p.timeMax = now + 365
                  /\ p.orderBy = "startTime"]_vars
\* a pass that listed with the cursor an earlier pass had stored
C32_Witness ==
    /\ bpass.fetched
    /\ "syncToken" \in DOMAIN bpass.params
    /\ bpass.params.syncToken = cur.sync_token
    /\ cur.sync_token # 0

\* ---------------------------------------------------------------------------
\* C33: a failed Calendar call is classified by its cause: a failure with
\* status 5xx or 429, or a network fault, is transient and is retried while
\* attempts remain; only a failure with status 401, 403, 404 or 410 ends the
\* retries at once, whatever else the message or the response text contains.
C33_Cause(message) ==
    IF message = NetworkMessage THEN "network" ELSE message[5]
C33_Transient(message) == C33_Cause(message) \in {"network", "500", "503", "429"}
C33_TaxonomyFollowed ==
    /\ (retry.pc = "thrown" /\ retry.errors # <<>> /\ C33_Transient(retry.lastError))
           => retry.i = retry.n - 1
    /\ retry.pc = "sleep" => C33_Transient(retry.lastError)
\* a call that failed with a server error was given up with attempts left
C33_Witness ==
    /\ retry.pc = "thrown"
    /\ retry.errors # <<>>
    /\ C33_Cause(retry.lastError) = "500"
    /\ retry.i < retry.n - 1

\* ---------------------------------------------------------------------------
\* C34: cancellation is final: an appointment whose status is cancelled is
\* not set back to scheduled by any step of any later pass.
C34_CancellationFinal ==
    [][\A a \in ApptIds :
          appts[a].status = "cancelled" => appts'[a].status = "cancelled"]_vars
\* the upsert of Phase B has met a cancelled row and the row is scheduled
C34_Witness ==
    /\ lastItem.op = "upsert"
    /\ lastItem.match = "cancelled"
    /\ \E a \in ApptIds :
          /\ appts[a].google_event_id = lastItem.event
          /\ appts[a].status = "scheduled"

\* ---------------------------------------------------------------------------
\* C35: Phase C cancels an appointment only if its remote event no longer
\* exists in the calendar the appointment was synced with; with two
\* integrations of one tenant, the sweep of one never cancels an appointment
\* whose event still exists in the calendar of the other.
C35_Swept(a) ==
    /\ epc = "C_items"
    /\ items' # items
    /\ appts[a].status # "cancelled"
    /\ appts'[a].status = "cancelled"
C35_SweepCancelsOnlyOrphans ==
    [][\A a \in ApptIds :
          C35_Swept(a) => events[appts[a].google_event_id].status = "gone"]_vars
\* the sweep has cancelled an appointment whose event is still in the
\* calendar of the tenant's other integration
C35_Witness ==
    /\ lastProbe.cancelled
    /\ lastProbe.code = 404
    /\ appts[lastProbe.appt].status = "cancelled"
    /\ events[appts[lastProbe.appt].google_event_id].status = "confirmed"

\* ---------------------------------------------------------------------------
\* C36: the external id is written once: once an appointment's
\* google_event_id is set, no step changes it to another value or back to
\* null.
C36_ExternalIdWriteOnce ==
    [][\A a \in ApptIds :
          appts[a].google_event_id # 0 =>
              appts'[a].google_event_id = appts[a].google_event_id]_vars
\* an appointment linked by Phase A has since been written by Phase B's
\* upsert for its event, and by nothing under another id
C36_Witness ==
    /\ lastItem.op = "upsert"
    /\ lastItem.match = "scheduled"
    /\ \E a \in ApptIds :
          /\ appts[a].google_event_id = lastItem.event
          /\ events[lastItem.event].origin = a
          /\ appts[a].data = events[lastItem.event].data

\* ---------------------------------------------------------------------------
\* C37: a push followed by a pull does not duplicate locally: the event
\* Phase A created for an appointment is carried, in the store, by that
\* appointment only; no second appointment carries it, also when storing
\* the external id in Phase A failed.
C37_Carriers(e) == {b \in ApptIds : appts[b].google_event_id = e}
C37_NoLocalDuplicate ==
    \A e \in EventIds :
        events[e].origin # 0 => C37_Carriers(e) \subseteq {events[e].origin}
\* the pull has added a second appointment for the event of an appointment
\* whose external id was not stored
C37_Witness ==
    \E e \in EventIds, b \in ApptIds :
        /\ events[e].origin # 0
        /\ b # events[e].origin
        /\ appts[b].google_event_id = e
        /\ appts[events[e].origin].google_event_id = 0
        /\ lastItem.op = "upsert"
        /\ lastItem.event = e

\* ---------------------------------------------------------------------------
\* C38: the stored cursor changes only at the end of a Phase B pass whose
\* list call succeeded, whose entries have all been processed and whose
\* response carried a cursor, and it becomes that cursor; a failed list call
\* or a response without cursor leaves it as it was, and Phase A, Phase C and
\* the token refresh never write it.
C38_CursorMoves(i) == integ'[i].sync_token # integ[i].sync_token
C38_CursorFrame ==
    [][\A i \in Integrations :
          C38_CursorMoves(i) =>
              /\ epc = "B_cursor"
              /\ i = cur.id
              /\ bpass.fetched
              /\ items = <<>>
              /\ resp # 0
              /\ integ'[i].sync_token = resp]_vars
\* the token was refreshed and stored in a cycle that found the cursor an
\* earlier pass had stored, and the cursor is still that one
C38_Witness ==
    /\ epc = "A_list"
    /\ integ[cur.id].access_token = "A1"
    /\ cur.sync_token # 0
    /\ integ[cur.id].sync_token = cur.sync_token

\* ---------------------------------------------------------------------------
\* C39: a refreshed token is returned only once it is stored: whenever
\* ensureValidToken returns a refreshed access token, the integration's row
\* holds that token with its new expiry and refresh token; if the update of
\* the row fails, ensureValidToken fails and returns no token.
C39_ReturnedRefreshed ==
    /\ tok.pc \in {"returned", "phases"}
    /\ tok.writes = 1
C39_ReturnedOnlyOnceStored ==
    C39_ReturnedRefreshed =>
        /\ tok.row.access_token = tok.result
        /\ tok.row.left = ExpiresIn
        /\ tok.row.refresh_token =
               (IF tok.rotated # "none" THEN tok.rotated
                ELSE tok.integration.refresh_token)
\* the refreshed token was returned and the phases entered while the row
\* holds the old token and the old expiry
C39_Witness ==
    /\ tok.pc = "phases"
    /\ tok.writes = 1
    /\ ~tok.applied
    /\ tok.result = "A1"
    /\ tok.row = tok.integration
    /\ tok.row.access_token = "A0"

====
